---------------------------- MODULE Spec2Model ----------------------------
(***************************************************************************)
(* A model of the device communication layer of the zencontrol            *)
(* integration: the sequence-correlated UDP transport (ZenUDPProtocol),   *)
(* the multicast listener (ZenMulticastProtocol) and the device state     *)
(* machines (ZenDevice, ZenLight, ZenSwitch, ZenSensor).                   *)
(*                                                                         *)
(* The three components share no state, so each has a specification of    *)
(* its own (SpecUdp, SpecMcast, SpecDev) over the same variables.  All    *)
(* code runs on one asyncio event loop: a synchronous handler is one      *)
(* atomic action, and a coroutine is split at its await points.           *)
(***************************************************************************)
EXTENDS Integers, Sequences, FiniteSets, TLC

VARIABLES
    \* ---- ZenUDPProtocol (comms/udp_protocol.py) ----
    sequence_counter,   \* self.sequence_counter
    pending_commands,   \* self.pending_commands: seq -> the caller whose future it is
    udp_transport,      \* self.transport is not None
    callers,            \* the send_command coroutines and their futures
    udp_error,          \* what the last handle_datagram call raised ("none" if nothing)
    udp_heard,          \* per caller: a datagram with its sequence was handled since it sent
    udp_wire,           \* the last datagram handed to transport.sendto
    sends,              \* number of send_command calls made by the modelled callers
    bursts,             \* number of BackgroundTraffic steps taken
    \* ---- ZenMulticastProtocol (comms/multicast_protocol.py) ----
    listeners,          \* self.listeners, a list of callbacks
    mc_transport,       \* self.transport is not None
    mc_calls,           \* the callbacks the last handle_datagram invoked, in order
    mc_event,           \* the event the last handle_datagram decoded ("none" if none)
    mc_error,           \* what the last handle_datagram call raised ("none" if nothing)
    mc_handled,         \* number of multicast datagrams handled
    \* ---- ZenDevice, ZenLight, ZenSwitch, ZenSensor (devices.py) ----
    dev,                \* the device object: its attributes and its state dict
    dev_last,           \* what the last device operation did (see NoOp)
    now,                \* the event loop's clock, loop.time()
    btn_run,            \* progress of a press, release, press run on one button
    \* ---- ZenControllerRegistry, ZenController (controller.py) ----
    controllers,        \* self.controllers: uid -> the controller object
    next_oid,           \* identity of the next controller object to be constructed
    reg_last,           \* what the last registry operation did
    \* ---- DiscoveryManager (discovery_manager.py) and the hub's device index ----
    in_progress,        \* self.in_progress
    disc_task,          \* the _discovery_process task created and not yet run
    disc_runs,          \* number of discovery tasks created so far
    hub_devices,        \* hub.devices: device_id -> the device object
    disc_last,          \* what the last start_discovery call or discovery run did
    \* ---- ZenControlHub (hub.py) ----
    hub_state,          \* "none", "built" (constructor returned) or "failed" (it raised)
    hub_error,          \* the exception that left the constructor
    hub_config,         \* config_entry.data["controllers"] the hub was constructed with
    wd_state,           \* where the controller_watchdog task is
    wd_cycles,          \* number of watchdog cycles that have run
    wd_wake,            \* the time at which the watchdog's current sleep ends
    \* ---- a device command awaiting controller.send_command ----
    dev_task,           \* the suspended turn_on, turn_off or press_button call
    dev_ctrl            \* the kind of controller object that owns the device

udpVars == <<sequence_counter, pending_commands, udp_transport, callers,
             udp_error, udp_heard, udp_wire, sends, bursts>>

mcVars == <<listeners, mc_transport, mc_calls, mc_event, mc_error, mc_handled>>

vars == <<sequence_counter, pending_commands, udp_transport, callers,
          udp_error, udp_heard, udp_wire, sends, bursts,
          listeners, mc_transport, mc_calls, mc_event, mc_error, mc_handled,
          dev, dev_last, now, btn_run,
          controllers, next_oid, reg_last,
          in_progress, disc_task, disc_runs, hub_devices, disc_last,
          hub_state, hub_error, hub_config, wd_state, wd_cycles, wd_wake,
          dev_task, dev_ctrl>>

devVars == <<dev, dev_last, now, btn_run>>

regVars == <<controllers, next_oid, reg_last>>

discVars == <<in_progress, disc_task, disc_runs, hub_devices, disc_last>>

ctorVars == <<hub_state, hub_error, hub_config>>

wdVars == <<wd_state, wd_cycles, wd_wake>>

cmdVars == <<dev_task, dev_ctrl>>

hubVars == <<regVars, discVars, ctorVars, wdVars, cmdVars>>

---------------------------------------------------------------------------
(* Bounds of the model *)

NumCallers == 2        \* concurrent send_command callers that are tracked
MaxSends == 3          \* send_command calls made by the tracked callers
MaxBursts == 1         \* BackgroundTraffic steps
BurstLen == 65535      \* commands of one BackgroundTraffic step
MaxListeners == 3      \* length of the multicast listener list
MaxDatagrams == 3      \* multicast datagrams handled
NumButtons == 2        \* num_buttons of the modelled switch
MaxTime == 2           \* largest value of the clock
MaxIntervals == 3      \* watchdog intervals that pass on the registry's clock
MaxObjects == 3        \* controller objects constructed
MaxRuns == 3           \* discovery tasks created
MaxHubRuns == 1        \* discovery runs started while the whole hub is followed
MaxCycles == 2         \* watchdog cycles
MaxHalfIntervals == 10 \* half watchdog intervals that pass while the watchdog is timed

(* Program constants *)

SEQ_MOD == 65536       \* udp_protocol.py:70, the modulus of the sequence counter
WATCHDOG_INTERVAL == 60    \* hub.py:196, seconds between two watchdog cycles
WATCHDOG_TIMEOUT == 120    \* hub.py:197, age at which the watchdog drops a controller
DEFAULT_TIMEOUT == 30      \* controller.py:36, default of remove_stale_controllers

Callers == 1..NumCallers
Commands == { <<16, 1>> }              \* command payloads given to send_command
Payloads == { <<170>>, <<187, 1>> }   \* payloads of inbound responses

---------------------------------------------------------------------------
(* ZenUDPProtocol *)

\* A byte order other than the code's: seq.to_bytes(2, 'little')
ToBytes_little(seq) == << seq % 256, seq \div 256 >>

\* seq.to_bytes(2, 'big')
ToBytes(seq) == << seq \div 256, seq % 256 >>

\* int.from_bytes(data[:2], 'big')
FromBytes(b) == b[1] * 256 + b[2]

\* _next_sequence: the value stored in sequence_counter and returned
NextSequence(counter) == (counter + 1) % SEQ_MOD

\* self.pending_commands[seq] = future
PutPending(p, seq, c) == [k \in (DOMAIN p) \cup {seq} |-> IF k = seq THEN c ELSE p[k]]

PopPending_keep(p, seq) == p

\* self.pending_commands.pop(seq, None)
PopPending(p, seq) == [k \in (DOMAIN p) \ {seq} |-> p[k]]

IdleCaller ==
    [pc |-> "idle", seq |-> 0, fut |-> "none", value |-> <<>>,
     outcome |-> "none", result |-> <<>>, sent |-> 0]

\* ZenUDPProtocol.start
UdpStart ==
    /\ ~udp_transport
    /\ udp_transport' = TRUE
    /\ UNCHANGED <<sequence_counter, pending_commands, callers, udp_error,
                   udp_heard, udp_wire, sends, bursts>>
    /\ UNCHANGED <<mcVars, devVars, hubVars>>

\* ZenUDPProtocol.stop
UdpStop ==
    /\ udp_transport
    /\ udp_transport' = FALSE
    /\ UNCHANGED <<sequence_counter, pending_commands, callers, udp_error,
                   udp_heard, udp_wire, sends, bursts>>
    /\ UNCHANGED <<mcVars, devVars, hubVars>>

\* send_command up to its await: the sequence is allocated, the future is
\* registered (overwriting whatever the slot held) and the datagram is sent.
\* With no transport, sendto raises AttributeError and the finally clause pops
\* the slot again before the error reaches the caller.
SendCommand(c, command) ==
    /\ callers[c].pc \in {"idle", "done"}
    /\ sends < MaxSends
    /\ LET seq == NextSequence(sequence_counter)
           registered == PutPending(pending_commands, seq, c)
       IN  /\ sequence_counter' = seq
           /\ IF udp_transport
                 THEN /\ pending_commands' = registered
                      /\ udp_wire' = ToBytes(seq) \o command
                      /\ callers' = [callers EXCEPT ![c] =
                             [pc |-> "awaiting", seq |-> seq, fut |-> "pending",
                              value |-> <<>>, outcome |-> "none", result |-> <<>>,
                              sent |-> 1]]
                 ELSE /\ pending_commands' = PopPending(registered, seq)
                      /\ udp_wire' = udp_wire
                      /\ callers' = [callers EXCEPT ![c] =
                             [pc |-> "done", seq |-> seq, fut |-> "none",
                              value |-> <<>>, outcome |-> "AttributeError",
                              result |-> <<>>, sent |-> 0]]
    /\ udp_heard' = [udp_heard EXCEPT ![c] = FALSE]
    /\ sends' = sends + 1
    /\ UNCHANGED <<udp_transport, udp_error, bursts>>
    /\ UNCHANGED <<mcVars, devVars, hubVars>>

\* The datagrams the network may deliver: a response for any sequence a caller
\* holds or for the next one to be issued, and two truncated frames.
InboundDatagrams ==
    { ToBytes(s) \o p :
        s \in {callers[c].seq : c \in Callers} \cup {NextSequence(sequence_counter)},
        p \in Payloads }
    \cup { <<>>, <<0>> }

\* handle_datagram, which UDPProtocol.datagram_received calls while the endpoint
\* is open.  future.set_result on a future that is already done or cancelled
\* raises asyncio.InvalidStateError.
HandleDatagram(data) ==
    /\ udp_transport
    /\ IF Len(data) < 2
          THEN /\ udp_error' = "none"
               /\ UNCHANGED <<callers, udp_heard>>
          ELSE LET seq == FromBytes(SubSeq(data, 1, 2))
                   payload == SubSeq(data, 3, Len(data))
               IN  /\ udp_heard' = [c \in Callers |->
                          udp_heard[c] \/ (callers[c].pc = "awaiting" /\ callers[c].seq = seq)]
                   /\ IF seq \in DOMAIN pending_commands
                         THEN LET c == pending_commands[seq]
                              IN  IF callers[c].fut = "pending"
                                     THEN /\ callers' = [callers EXCEPT
                                                 ![c].fut = "done", ![c].value = payload]
                                          /\ udp_error' = "none"
                                     ELSE /\ callers' = callers
                                          /\ udp_error' = "InvalidStateError"
                         ELSE /\ callers' = callers
                              /\ udp_error' = "none"
    /\ UNCHANGED <<sequence_counter, pending_commands, udp_transport, udp_wire,
                   sends, bursts>>
    /\ UNCHANGED <<mcVars, devVars, hubVars>>

\* asyncio.wait_for(future, timeout): the timeout elapses and cancels the future
TimeoutExpires(c) ==
    /\ callers[c].pc = "awaiting"
    /\ callers[c].fut = "pending"
    /\ callers' = [callers EXCEPT ![c].fut = "cancelled"]
    /\ UNCHANGED <<sequence_counter, pending_commands, udp_transport, udp_error,
                   udp_heard, udp_wire, sends, bursts>>
    /\ UNCHANGED <<mcVars, devVars, hubVars>>

\* The event loop resumes the coroutine once its future is settled: the result
\* is returned or TimeoutError is raised, and the finally clause pops the slot
\* of the coroutine's sequence, whatever future it holds.
Resume(c) ==
    /\ callers[c].pc = "awaiting"
    /\ callers[c].fut \in {"done", "cancelled"}
    /\ callers' = [callers EXCEPT
           ![c].pc = "done",
           ![c].outcome = IF callers[c].fut = "done" THEN "returned" ELSE "TimeoutError",
           ![c].result = callers[c].value]
    /\ pending_commands' = PopPending(pending_commands, callers[c].seq)
    /\ UNCHANGED <<sequence_counter, udp_transport, udp_error, udp_heard,
                   udp_wire, sends, bursts>>
    /\ UNCHANGED <<mcVars, devVars, hubVars>>

\* BurstLen further send_command calls by callers the model does not track,
\* each run from its call to its return before the next step of the model:
\* every one of them advances the counter, registers its slot and pops it,
\* and with the transport open the last of them leaves its datagram on the wire.
BackgroundTraffic ==
    /\ bursts < MaxBursts
    /\ sequence_counter' = (sequence_counter + BurstLen) % SEQ_MOD
    /\ pending_commands' =
           [k \in {s \in DOMAIN pending_commands :
                      (s - sequence_counter - 1) % SEQ_MOD >= BurstLen}
               |-> pending_commands[k]]
    /\ bursts' = bursts + 1
    /\ udp_wire' = IF udp_transport
                      THEN ToBytes(sequence_counter') \o (CHOOSE command \in Commands : TRUE)
                      ELSE udp_wire
    /\ UNCHANGED <<udp_transport, callers, udp_error, udp_heard, sends>>
    /\ UNCHANGED <<mcVars, devVars, hubVars>>

---------------------------------------------------------------------------
(* ZenMulticastProtocol *)

\* The callbacks that may be registered, and what each does when it is called:
\* the hub's handle_multicast_event returns, another callback raises an
\* Exception, and a third unregisters itself (remove_listener) and returns.
ListenerIds == {"hub", "raiser", "oneshot"}

Behaviour(l) ==
    CASE l = "hub" -> "returns"
      [] l = "raiser" -> "raises"
      [] l = "oneshot" -> "removes_self"

\* The datagrams the group may deliver.  utf8: whether data.decode() succeeds;
\* json: what json.loads makes of the text.
McDatagrams ==
    { [utf8 |-> TRUE,  json |-> "object",  event |-> "event_a"],
      [utf8 |-> TRUE,  json |-> "object",  event |-> "event_b"],
      [utf8 |-> TRUE,  json |-> "malformed", event |-> "none"],
      [utf8 |-> TRUE,  json |-> "unclosed_deep", event |-> "none"],
      [utf8 |-> FALSE, json |-> "malformed", event |-> "none"] }

\* json.loads(data.decode()): the decoded event or the exception raised.
\* bytes.decode raises UnicodeDecodeError on bytes that are not UTF-8;
\* json.loads raises JSONDecodeError on malformed text, and RecursionError
\* (not a JSONDecodeError) on text such as b"[" * 2000 that opens more
\* brackets than the interpreter's recursion limit before it ends.
Decode(d) ==
    IF ~d.utf8 THEN [exc |-> "UnicodeDecodeError", event |-> "none"]
    ELSE IF d.json = "malformed" THEN [exc |-> "JSONDecodeError", event |-> "none"]
    ELSE IF d.json = "unclosed_deep" THEN [exc |-> "RecursionError", event |-> "none"]
    ELSE [exc |-> "none", event |-> d.event]

\* list.remove(x): the first occurrence goes
RECURSIVE RemoveFirst(_, _)
RemoveFirst(L, x) ==
    IF L = <<>> THEN <<>>
    ELSE IF Head(L) = x THEN Tail(L)
    ELSE <<Head(L)>> \o RemoveFirst(Tail(L), x)

InList(L, x) == \E i \in DOMAIN L : L[i] = x

\* One callback(event) inside the try of the loop: an Exception raised by the
\* callback is caught and logged; what remains is the callback's effect on the
\* listener list.
CallListener(L, l) ==
    IF Behaviour(l) = "removes_self" /\ InList(L, l) THEN RemoveFirst(L, l) ELSE L

\* for callback in self.listeners: the list iterator holds an index into the
\* live list, so the loop ends when the index passes the current length.
RECURSIVE Dispatch(_, _, _)
Dispatch(i, L, calls) ==
    IF i > Len(L) THEN [listeners |-> L, calls |-> calls]
    ELSE Dispatch(i + 1, CallListener(L, L[i]), Append(calls, L[i]))

\* ZenMulticastProtocol.start
McStart ==
    /\ ~mc_transport
    /\ mc_transport' = TRUE
    /\ UNCHANGED <<listeners, mc_calls, mc_event, mc_error, mc_handled>>
    /\ UNCHANGED <<udpVars, devVars, hubVars>>

\* ZenMulticastProtocol.stop
McStop ==
    /\ mc_transport
    /\ mc_transport' = FALSE
    /\ UNCHANGED <<listeners, mc_calls, mc_event, mc_error, mc_handled>>
    /\ UNCHANGED <<udpVars, devVars, hubVars>>

\* add_listener
AddListener(l) ==
    /\ Len(listeners) < MaxListeners
    /\ listeners' = Append(listeners, l)
    /\ UNCHANGED <<mc_transport, mc_calls, mc_event, mc_error, mc_handled>>
    /\ UNCHANGED <<udpVars, devVars, hubVars>>

\* remove_listener
RemoveListener(l) ==
    /\ listeners' = IF InList(listeners, l) THEN RemoveFirst(listeners, l) ELSE listeners
    /\ UNCHANGED <<mc_transport, mc_calls, mc_event, mc_error, mc_handled>>
    /\ UNCHANGED <<udpVars, devVars, hubVars>>

\* handle_datagram, which MulticastProtocol.datagram_received calls while the
\* endpoint is open.  Only JSONDecodeError and UnicodeDecodeError are caught
\* around the decoding; any other exception of json.loads leaves the handler.
McHandleDatagram(d) ==
    /\ mc_transport
    /\ mc_handled < MaxDatagrams
    /\ mc_handled' = mc_handled + 1
    /\ LET dec == Decode(d)
       IN  IF dec.exc = "none"
              THEN LET r == Dispatch(1, listeners, <<>>)
                   IN  /\ listeners' = r.listeners
                       /\ mc_calls' = r.calls
                       /\ mc_event' = dec.event
                       /\ mc_error' = "none"
              ELSE /\ listeners' = listeners
                   /\ mc_calls' = <<>>
                   /\ mc_event' = "none"
                   /\ mc_error' = IF dec.exc \in {"JSONDecodeError", "UnicodeDecodeError"}
                                     THEN "none" ELSE dec.exc
    /\ UNCHANGED mc_transport
    /\ UNCHANGED <<udpVars, devVars, hubVars>>

InitMcast ==
    /\ listeners = <<>>
    /\ mc_transport = FALSE
    /\ mc_calls = <<>>
    /\ mc_event = "none"
    /\ mc_error = "none"
    /\ mc_handled = 0

NextMcast ==
    \/ McStart
    \/ McStop
    \/ \E l \in ListenerIds : AddListener(l)
    \/ \E l \in ListenerIds : RemoveListener(l)
    \/ \E d \in McDatagrams : McHandleDatagram(d)

---------------------------------------------------------------------------
(* ZenDevice: the state dict and its single update path *)

\* Python values held in a state dict, tagged with their type
None == <<"none">>
Str(s) == <<"str", s>>
IntV(n) == <<"int", n>>
Bool(b) == <<"bool", b>>
ListV(l) == <<"list", l>>
DictV(f) == <<"dict", f>>
TimeV(t) == <<"time", t>>

EmptyDict == [k \in {} |-> None]

\* dict.get(key): None when the key is missing
DictGet(st, k) == IF k \in DOMAIN st THEN st[k] ELSE None

\* {**a, **b}
Override(a, b) ==
    [k \in (DOMAIN a) \cup (DOMAIN b) |-> IF k \in DOMAIN b THEN b[k] ELSE a[k]]

CallbackIds == {"cb1", "cb2"}

\* notify_callbacks: the callbacks are called in the set's iteration order and
\* nothing is caught, so the first one that raises ends the loop.  A run names
\* the callbacks that were called and whether the last of them raised.
NotifyRuns(cbs) ==
    { [invoked |-> cbs, raised |-> FALSE] }
    \cup { [invoked |-> S, raised |-> TRUE] : S \in (SUBSET cbs) \ {{}} }

\* update_state: a key is written when state.get(key) != value, and the
\* callbacks are notified when some key was written.
UpdateState(d, new_state, run) ==
    LET written == {k \in DOMAIN new_state : DictGet(d.state, k) # new_state[k]}
        changed == written # {}
    IN  [dev |-> [d EXCEPT !.state =
                     [k \in (DOMAIN d.state) \cup written |->
                         IF k \in written THEN new_state[k] ELSE d.state[k]]],
         notified |-> changed,
         invoked |-> IF changed THEN run.invoked ELSE {},
         raised |-> changed /\ run.raised]

\* fire_event: nothing without a Home Assistant reference
FireEvent(d, event) == IF d.hass THEN <<event>> ELSE <<>>

\* What an operation did besides changing the device: whether it was rejected,
\* whether notify_callbacks ran and which callbacks it called, whether an
\* exception left the operation, and the domain events and commands it emitted.
NoOp(op) ==
    [op |-> op, rejected |-> FALSE, notified |-> FALSE, invoked |-> {},
     raised |-> FALSE, events |-> <<>>, cmds |-> <<>>]

Rejected(op) == [NoOp(op) EXCEPT !.rejected = TRUE]

Outcome(op, r, events) ==
    [NoOp(op) EXCEPT !.notified = r.notified, !.invoked = r.invoked,
                     !.raised = r.raised, !.events = events]

\* ZenDevice.__init__ and the attributes its subclasses add
NewDevice(kind) ==
    [kind |-> kind, state |-> EmptyDict, callbacks |-> {}, hass |-> FALSE,
     is_color |-> FALSE,
     num_buttons |-> 0, mode |-> "none", button_states |-> <<>>, scenes |-> <<>>,
     sensor_type |-> "none"]

\* ZenLight.__init__
NewLight(is_color) ==
    [NewDevice("light") EXCEPT
        !.is_color = is_color,
        !.state = [state |-> Str("off"),
                   brightness |-> IntV(0),
                   color_temp |-> None,
                   rgb_color |-> IF is_color THEN ListV(<<255, 255, 255>>) ELSE None,
                   supported_features |->
                       IF is_color THEN ListV(<<"RGB", "COLOR_TEMP">>)
                                   ELSE ListV(<<"BRIGHTNESS">>)]]

\* ZenSwitch.__init__
NewSwitch(num_buttons, mode) ==
    [NewDevice("switch") EXCEPT
        !.num_buttons = num_buttons,
        !.mode = mode,
        !.button_states = [i \in 0..(num_buttons - 1) |-> FALSE],
        !.scenes = [i \in {} |-> "none"]]

\* ZenSensor.__init__
NewSensor(sensor_type) ==
    [NewDevice("sensor") EXCEPT
        !.sensor_type = sensor_type,
        !.state = [active |-> Bool(FALSE), last_triggered |-> None]]

\* register_callback
RegisterCallback(cb) ==
    /\ dev' = [dev EXCEPT !.callbacks = @ \cup {cb}]
    /\ UNCHANGED <<dev_last, now, btn_run>>
    /\ UNCHANGED <<udpVars, mcVars, hubVars>>

\* remove_callback
RemoveCallback(cb) ==
    /\ dev' = [dev EXCEPT !.callbacks = @ \ {cb}]
    /\ UNCHANGED <<dev_last, now, btn_run>>
    /\ UNCHANGED <<udpVars, mcVars, hubVars>>

\* register_hass, which hub.add_device calls
RegisterHass ==
    /\ dev' = [dev EXCEPT !.hass = TRUE]
    /\ UNCHANGED <<dev_last, now, btn_run>>
    /\ UNCHANGED <<udpVars, mcVars, hubVars>>

\* The clock of the event loop moves on (only a sensor reads it)
Tick ==
    /\ dev.kind = "sensor"
    /\ now < MaxTime
    /\ now' = now + 1
    /\ UNCHANGED <<dev, dev_last, btn_run>>
    /\ UNCHANGED <<udpVars, mcVars, hubVars>>

\* The state objects a light_state event hands to update_state verbatim
\* (hub._handle_device_event); JSON null arrives as None.
StatePartials ==
    { EmptyDict,
      [state |-> Str("on"), brightness |-> IntV(0)],
      [note |-> None] }

\* update_state called with a state object from outside, whatever the device
UpdateStateCall(partial, run) ==
    /\ LET r == UpdateState(dev, partial, run)
       IN  /\ dev' = r.dev
           /\ dev_last' = Outcome("update_state", r, <<>>)
    /\ UNCHANGED <<now, btn_run>>
    /\ UNCHANGED <<udpVars, mcVars, hubVars>>

---------------------------------------------------------------------------
(* ZenSwitch *)

ButtonActions == {"press", "release", "double_press"}
ButtonInputs == (0 - 1)..NumButtons     \* in range, below and above the range
SceneIds == {"scene.evening"}

\* not (button < 0 or button >= self.num_buttons)
ValidButton(d, button) == ~(button < 0 \/ button >= d.num_buttons)

ButtonTransition_release_ignored(mode, action, old) ==
    IF mode = "toggle"
       THEN (IF action \in {"press", "double_press"} THEN ~old ELSE old)
    ELSE IF mode = "momentary"
       THEN (IF action = "press" THEN TRUE ELSE old)
    ELSE old

ButtonTransition_toggle_on_release(mode, action, old) ==
    IF mode = "toggle"
       THEN (IF action \in {"press", "double_press", "release"} THEN ~old ELSE old)
    ELSE IF mode = "momentary"
       THEN (IF action = "press" THEN TRUE
             ELSE IF action = "release" THEN FALSE ELSE old)
    ELSE old

\* The new boolean of the button, by mode and action
ButtonTransition(mode, action, old) ==
    IF mode = "toggle"
       THEN (IF action = "press" THEN ~old
             ELSE IF action = "double_press" THEN ~old ELSE old)
    ELSE IF mode = "momentary"
       THEN (IF action = "press" THEN TRUE
             ELSE IF action = "release" THEN FALSE ELSE old)
    ELSE old

\* handle_button_event: the button's boolean is set, update_state is given a
\* copy of button_states, and the domain event is fired after it returns (an
\* exception of a callback leaves the handler before fire_event).
HandleButtonEvent(d, button, action, run) ==
    IF ~ValidButton(d, button)
       THEN [dev |-> d, last |-> Rejected("handle_button_event")]
       ELSE LET bs == [d.button_states EXCEPT
                          ![button] = ButtonTransition(d.mode, action, @)]
                r == UpdateState([d EXCEPT !.button_states = bs],
                                 [button_states |-> DictV(bs)], run)
                events == IF r.raised THEN <<>>
                          ELSE FireEvent(d, <<"zencontrol_button_event",
                                             button, action, bs[button]>>)
            IN  [dev |-> r.dev, last |-> Outcome("handle_button_event", r, events)]

\* The press, release, press run on one button that starts at false: stage is
\* the number of its events handled so far; notifs and events count the change
\* notifications and domain events of the run, muted the events of the run
\* handled without a Home Assistant reference or cut short by a raising
\* callback.
IdleRun == [stage |-> 0, button |-> 0, notifs |-> 0, events |-> 0, muted |-> 0]

Count(b) == IF b THEN 1 ELSE 0

RunStep(m, d, button, action, last) ==
    LET n == Count(last.notified)
        e == Len(last.events)
        q == Count(~d.hass \/ last.raised)
    IN  IF m.stage = 1 /\ button = m.button /\ action = "release"
           THEN [m EXCEPT !.stage = 2, !.notifs = @ + n, !.events = @ + e, !.muted = @ + q]
        ELSE IF m.stage = 2 /\ button = m.button /\ action = "press"
           THEN [m EXCEPT !.stage = 3, !.notifs = @ + n, !.events = @ + e, !.muted = @ + q]
        ELSE IF action = "press" /\ ~d.button_states[button]
           THEN [stage |-> 1, button |-> button, notifs |-> n, events |-> e, muted |-> q]
        ELSE IdleRun

\* handle_button_event, called by the hub for a button event
HandleButtonEventCall(button, action, run) ==
    /\ dev.kind = "switch"
    /\ LET r == HandleButtonEvent(dev, button, action, run)
       IN  /\ dev' = r.dev
           /\ dev_last' = r.last
    /\ UNCHANGED <<now, btn_run>>
    /\ UNCHANGED <<udpVars, mcVars, hubVars>>

\* handle_button_event as above, with the run on the button followed
ObservedButtonEvent(button, action, run) ==
    /\ dev.kind = "switch"
    /\ LET r == HandleButtonEvent(dev, button, action, run)
       IN  /\ dev' = r.dev
           /\ dev_last' = r.last
           /\ btn_run' = IF r.last.rejected THEN btn_run
                         ELSE RunStep(btn_run, dev, button, action, r.last)
    /\ UNCHANGED now
    /\ UNCHANGED <<udpVars, mcVars, hubVars>>

\* press_button: the index is validated, the command is handed to
\* controller.send_command (which returns without suspending), and then
\* handle_button_event(button, action) runs.
PressButton_awaits_event(d, button, action, run) ==
    IF ~ValidButton(d, button)
       THEN [dev |-> d, last |-> Rejected("press_button")]
       ELSE [dev |-> d,
             last |-> [NoOp("press_button") EXCEPT
                          !.cmds = << <<"BUTTON_ACTION", button, action>> >>]]

PressButton(d, button, action, run) ==
    IF ~ValidButton(d, button)
       THEN [dev |-> d, last |-> Rejected("press_button")]
       ELSE LET r == HandleButtonEvent(d, button, action, run)
            IN  [dev |-> r.dev,
                 last |-> [r.last EXCEPT
                             !.op = "press_button",
                             !.cmds = << <<"BUTTON_ACTION", button, action>> >>]]

PressButtonCall(button, action, run) ==
    /\ dev.kind = "switch"
    /\ LET r == PressButton(dev, button, action, run)
       IN  /\ dev' = r.dev
           /\ dev_last' = r.last
    /\ UNCHANGED <<now, btn_run>>
    /\ UNCHANGED <<udpVars, mcVars, hubVars>>

\* assign_scene
AssignScene(button, scene_id) ==
    /\ dev.kind = "switch"
    /\ IF ~ValidButton(dev, button)
          THEN /\ dev' = dev
               /\ dev_last' = Rejected("assign_scene")
          ELSE /\ dev' = [dev EXCEPT !.scenes =
                             [b \in (DOMAIN dev.scenes) \cup {button} |->
                                 IF b = button THEN scene_id ELSE dev.scenes[b]]]
               /\ dev_last' = NoOp("assign_scene")
    /\ UNCHANGED <<now, btn_run>>
    /\ UNCHANGED <<udpVars, mcVars, hubVars>>

---------------------------------------------------------------------------
(* ZenSensor *)

SensorTypes == {"motion", "occupancy"}

AcceptsMotion_any(d) == TRUE

\* not (self.sensor_type != "motion")
AcceptsMotion(d) == ~(d.sensor_type # "motion")

\* not (self.sensor_type != "occupancy")
AcceptsOccupancy(d) == ~(d.sensor_type # "occupancy")

\* The body shared by handle_motion and handle_occupancy after the type check
SensorUpdate(d, op, event_type, active, t, run) ==
    LET r == UpdateState(d, [active |-> Bool(active),
                             last_triggered |-> IF active THEN TimeV(t) ELSE None], run)
        events == IF r.raised THEN <<>> ELSE FireEvent(d, <<event_type, active>>)
    IN  [dev |-> r.dev, last |-> Outcome(op, r, events)]

\* handle_motion
HandleMotion(d, active, t, run) ==
    IF ~AcceptsMotion(d)
       THEN [dev |-> d, last |-> Rejected("handle_motion")]
       ELSE SensorUpdate(d, "handle_motion", "zencontrol_motion_event", active, t, run)

\* handle_occupancy
HandleOccupancy(d, active, t, run) ==
    IF ~AcceptsOccupancy(d)
       THEN [dev |-> d, last |-> Rejected("handle_occupancy")]
       ELSE SensorUpdate(d, "handle_occupancy", "zencontrol_occupancy_event", active, t, run)

HandleMotionCall(active, run) ==
    /\ dev.kind = "sensor"
    /\ LET r == HandleMotion(dev, active, now, run)
       IN  dev' = r.dev /\ dev_last' = r.last
    /\ UNCHANGED <<now, btn_run>>
    /\ UNCHANGED <<udpVars, mcVars, hubVars>>

HandleOccupancyCall(active, run) ==
    /\ dev.kind = "sensor"
    /\ LET r == HandleOccupancy(dev, active, now, run)
       IN  dev' = r.dev /\ dev_last' = r.last
    /\ UNCHANGED <<now, btn_run>>
    /\ UNCHANGED <<udpVars, mcVars, hubVars>>

---------------------------------------------------------------------------
(* ZenLight *)

\* Keyword arguments given to turn_on
LightKwargs ==
    { EmptyDict,
      [brightness |-> IntV(128)],
      [brightness |-> IntV(255), color_temp |-> IntV(300)] }

Brightnesses == {128}
RgbColors == { <<255, 0, 0>> }
ColorTemps == {300}

\* turn_on: the LIGHT_ON command is handed to controller.send_command (which
\* returns without suspending), then update_state gets "on" and the
\* brightness, rgb_color and color_temp that were given.
TurnOn(d, op, kwargs, run) ==
    LET new_state == Override([state |-> Str("on")],
                        [k \in (DOMAIN kwargs) \cap {"brightness", "rgb_color", "color_temp"}
                            |-> kwargs[k]])
        r == UpdateState(d, new_state, run)
    IN  [dev |-> r.dev,
         last |-> [Outcome(op, r, <<>>) EXCEPT !.cmds = << <<"LIGHT_ON", kwargs>> >>]]

\* turn_off
TurnOff(d, run) ==
    LET r == UpdateState(d, [state |-> Str("off")], run)
    IN  [dev |-> r.dev,
         last |-> [Outcome("turn_off", r, <<>>) EXCEPT !.cmds = << <<"LIGHT_OFF">> >>]]

\* set_rgb_color
SetRgbColor(d, rgb, run) ==
    IF ~d.is_color
       THEN [dev |-> d, last |-> Rejected("set_rgb_color")]
       ELSE TurnOn(d, "set_rgb_color", [rgb_color |-> ListV(rgb)], run)

\* set_color_temp
SetColorTemp(d, color_temp, run) ==
    IF ~d.is_color
       THEN [dev |-> d, last |-> Rejected("set_color_temp")]
       ELSE TurnOn(d, "set_color_temp", [color_temp |-> IntV(color_temp)], run)

LightStep(r) ==
    /\ dev.kind = "light"
    /\ dev' = r.dev
    /\ dev_last' = r.last
    /\ UNCHANGED <<now, btn_run>>
    /\ UNCHANGED <<udpVars, mcVars, hubVars>>

TurnOnCall(kwargs, run) == LightStep(TurnOn(dev, "turn_on", kwargs, run))

TurnOffCall(run) == LightStep(TurnOff(dev, run))

\* set_brightness: turn_on(brightness=brightness)
SetBrightnessCall(brightness, run) ==
    LightStep(TurnOn(dev, "set_brightness", [brightness |-> IntV(brightness)], run))

SetRgbColorCall(rgb, run) == LightStep(SetRgbColor(dev, rgb, run))

SetColorTempCall(color_temp, run) == LightStep(SetColorTemp(dev, color_temp, run))

InitialDevices ==
    { NewLight(c) : c \in BOOLEAN }
    \cup { NewSwitch(NumButtons, m) : m \in {"momentary", "toggle"} }
    \cup { NewSensor(t) : t \in SensorTypes }

InitDev ==
    /\ dev \in InitialDevices
    /\ dev_last = NoOp("none")
    /\ now = 0
    /\ btn_run = IdleRun

NextDev ==
    \/ \E cb \in CallbackIds : RegisterCallback(cb)
    \/ \E cb \in CallbackIds : RemoveCallback(cb)
    \/ RegisterHass
    \/ Tick
    \/ \E partial \in StatePartials, run \in NotifyRuns(dev.callbacks) :
          UpdateStateCall(partial, run)
    \/ \E button \in ButtonInputs, action \in ButtonActions, run \in NotifyRuns(dev.callbacks) :
          HandleButtonEventCall(button, action, run)
    \/ \E button \in ButtonInputs, action \in ButtonActions, run \in NotifyRuns(dev.callbacks) :
          PressButtonCall(button, action, run)
    \/ \E button \in ButtonInputs, scene_id \in SceneIds : AssignScene(button, scene_id)
    \/ \E active \in BOOLEAN, run \in NotifyRuns(dev.callbacks) : HandleMotionCall(active, run)
    \/ \E active \in BOOLEAN, run \in NotifyRuns(dev.callbacks) : HandleOccupancyCall(active, run)
    \/ \E kwargs \in LightKwargs, run \in NotifyRuns(dev.callbacks) : TurnOnCall(kwargs, run)
    \/ \E run \in NotifyRuns(dev.callbacks) : TurnOffCall(run)
    \/ \E b \in Brightnesses, run \in NotifyRuns(dev.callbacks) : SetBrightnessCall(b, run)
    \/ \E rgb \in RgbColors, run \in NotifyRuns(dev.callbacks) : SetRgbColorCall(rgb, run)
    \/ \E ct \in ColorTemps, run \in NotifyRuns(dev.callbacks) : SetColorTempCall(ct, run)

\* A switch in service: callbacks come and go, Home Assistant is registered,
\* button events arrive
InitRun ==
    /\ dev \in { NewSwitch(NumButtons, m) : m \in {"momentary", "toggle"} }
    /\ dev_last = NoOp("none")
    /\ now = 0
    /\ btn_run = IdleRun

NextRun ==
    \/ \E cb \in CallbackIds : RegisterCallback(cb)
    \/ \E cb \in CallbackIds : RemoveCallback(cb)
    \/ RegisterHass
    \/ \E button \in ButtonInputs, action \in ButtonActions, run \in NotifyRuns(dev.callbacks) :
          ObservedButtonEvent(button, action, run)

---------------------------------------------------------------------------
(* ZenControllerRegistry and ZenController *)

Uids == {"zc-1", "zc-2"}
Ips == {"10.0.0.5", "10.0.0.9"}
Timeouts == {DEFAULT_TIMEOUT, WATCHDOG_TIMEOUT}

EmptyRegistry == [u \in {} |-> 0]

\* ZenController.__init__: oid stands for the identity of the object
NewController(uid, ip, t, oid) ==
    [uid |-> uid, ip |-> ip, is_ready |-> FALSE, last_seen |-> t, oid |-> oid,
     devices |-> <<>>]

AddController_keep_ip(reg, uid, ip, t, oid) ==
    IF uid \notin DOMAIN reg
       THEN [u \in (DOMAIN reg) \cup {uid} |->
                IF u = uid THEN NewController(uid, ip, t, oid) ELSE reg[u]]
       ELSE reg

AddController_replaces(reg, uid, ip, t, oid) ==
    [u \in (DOMAIN reg) \cup {uid} |->
        IF u = uid THEN NewController(uid, ip, t, oid) ELSE reg[u]]

\* add_controller: a new uid gets a new controller object, a known uid keeps
\* its object and has its ip overwritten when it differs
AddController(reg, uid, ip, t, oid) ==
    IF uid \notin DOMAIN reg
       THEN [u \in (DOMAIN reg) \cup {uid} |->
                IF u = uid THEN NewController(uid, ip, t, oid) ELSE reg[u]]
       ELSE IF reg[uid].ip # ip
               THEN [reg EXCEPT ![uid].ip = ip]
               ELSE reg

Stale_inclusive(c, t, timeout) == t - c.last_seen >= timeout

\* now - c.last_seen > timeout
Stale(c, t, timeout) == t - c.last_seen > timeout

RemoveStaleControllers_none(reg, t, timeout) == reg

\* remove_stale_controllers: the stale uids are collected, then deleted
RemoveStaleControllers(reg, t, timeout) ==
    LET stale == {u \in DOMAIN reg : Stale(reg[u], t, timeout)}
    IN  [u \in (DOMAIN reg) \ stale |-> reg[u]]

\* What a registry operation did: the controllers it removed and, for
\* add_controller, whether it created, changed or left the entry
RegNone == [op |-> "none", change |-> "none", removed |-> {}]

\* registry.add_controller(uid, ip)
AddControllerCall(uid, ip) ==
    /\ uid \in DOMAIN controllers \/ next_oid <= MaxObjects
    /\ controllers' = AddController(controllers, uid, ip, now, next_oid)
    /\ next_oid' = IF uid \in DOMAIN controllers THEN next_oid ELSE next_oid + 1
    /\ reg_last' = [op |-> "add_controller",
                    change |-> IF uid \notin DOMAIN controllers THEN "created"
                               ELSE IF controllers[uid].ip # ip THEN "ip_changed"
                               ELSE "unchanged",
                    removed |-> {}]
    /\ UNCHANGED devVars
    /\ UNCHANGED <<discVars, ctorVars, wdVars, cmdVars>>
    /\ UNCHANGED <<udpVars, mcVars>>

\* controller.update_heartbeat()
UpdateHeartbeatCall(uid) ==
    /\ uid \in DOMAIN controllers
    /\ controllers' = [controllers EXCEPT ![uid].last_seen = now]
    /\ UNCHANGED <<next_oid, reg_last>>
    /\ UNCHANGED devVars
    /\ UNCHANGED <<discVars, ctorVars, wdVars, cmdVars>>
    /\ UNCHANGED <<udpVars, mcVars>>

\* registry.remove_stale_controllers(timeout)
RemoveStaleCall(timeout) ==
    /\ controllers' = RemoveStaleControllers(controllers, now, timeout)
    /\ reg_last' = [op |-> "remove_stale", change |-> "none",
                    removed |-> (DOMAIN controllers) \ (DOMAIN controllers')]
    /\ UNCHANGED next_oid
    /\ UNCHANGED devVars
    /\ UNCHANGED <<discVars, ctorVars, wdVars, cmdVars>>
    /\ UNCHANGED <<udpVars, mcVars>>

\* One watchdog interval passes on the clock of the event loop
IntervalPasses ==
    /\ now < MaxIntervals * WATCHDOG_INTERVAL
    /\ now' = now + WATCHDOG_INTERVAL
    /\ UNCHANGED <<dev, dev_last, btn_run>>
    /\ UNCHANGED regVars
    /\ UNCHANGED <<discVars, ctorVars, wdVars, cmdVars>>
    /\ UNCHANGED <<udpVars, mcVars>>

InitReg ==
    /\ controllers = EmptyRegistry
    /\ next_oid = 1
    /\ reg_last = RegNone

NextReg ==
    \/ \E uid \in Uids, ip \in Ips : AddControllerCall(uid, ip)
    \/ \E uid \in Uids : UpdateHeartbeatCall(uid)
    \/ \E timeout \in Timeouts : RemoveStaleCall(timeout)
    \/ IntervalPasses

---------------------------------------------------------------------------
(* DiscoveryManager and the hub's device index *)

MarkReady_flips(reg, uid) == [reg EXCEPT ![uid].is_ready = ~@]

\* controller.mark_ready()
MarkReady(reg, uid) == [reg EXCEPT ![uid].is_ready = TRUE]

\* get_ready_controllers: the controllers of the registry with is_ready set,
\* named by their uids
GetReadyControllers(reg) == {u \in DOMAIN reg : reg[u].is_ready}

\* next(iter(registry.controllers.values()), None): a dict iterates in the
\* order of insertion, which is the order of construction
FirstController(reg) ==
    IF DOMAIN reg = {} THEN "none"
    ELSE CHOOSE u \in DOMAIN reg : \A v \in DOMAIN reg : reg[u].oid <= reg[v].oid

\* The devices _simulate_device_discovery constructs, in order
SimulatedDevices ==
    << [device_id |-> "light_kitchen", cls |-> "ZenLight"],
       [device_id |-> "light_hall", cls |-> "ZenLight"],
       [device_id |-> "switch_entrance", cls |-> "ZenSwitch"],
       [device_id |-> "sensor_livingroom", cls |-> "ZenSensor"] >>

DeviceIds == { SimulatedDevices[i].device_id : i \in DOMAIN SimulatedDevices }

EmptyIndex == [d \in {} |-> 0]

\* hub.add_device for the first n simulated devices: each is a new object,
\* constructed by run `run` with the controller object `owner`
AddDevices(index, n, owner, run) ==
    LET ids == { SimulatedDevices[i].device_id : i \in 1..n }
    IN  [d \in (DOMAIN index) \cup ids |->
            IF d \in ids
               THEN [cls |-> (CHOOSE i \in 1..n : SimulatedDevices[i].device_id = d),
                     owner |-> owner, made_by |-> run]
               ELSE index[d]]

\* Where a run of the workflow can raise: the two steps that talk to the
\* network (the dispatcher catches and logs what its targets raise)
FailPoints == {"none", "discover_controllers", "query_devices", "add_device"}

\* Number of devices registered before the failure
DevicesBefore(fail) ==
    IF fail = "none" THEN Len(SimulatedDevices)
    ELSE IF fail = "add_device" THEN 2
    ELSE 0

ClearedIndex_always(index, user_initiated) == EmptyIndex

\* if user_initiated: self.hub.devices.clear()
ClearedIndex(index, user_initiated) == IF user_initiated THEN EmptyIndex ELSE index

\* One {"device_id": d, "action": "add"} signal per device_id of the index, as
\* the loop of _query_devices sends them (the index is kept without its
\* insertion order, so the signals are listed in an arbitrary fixed order)
RECURSIVE AddSignals(_)
AddSignals(ids) ==
    IF ids = {} THEN <<>>
    ELSE LET d == CHOOSE x \in ids : TRUE
         IN  << <<"add", d>> >> \o AddSignals(ids \ {d})

Broadcast_complete_first(index, fail) ==
    IF fail = "none"
       THEN << <<"complete">> >> \o AddSignals(DOMAIN index)
       ELSE << <<"error", fail>> >>

\* The DISCOVERY_SIGNAL broadcasts of one run, in order: the add signals of
\* _query_devices and then {"status": "complete"}, or, when a step raised
\* `fail`, only {"status": "error", "error": str(e)}
Broadcast(index, fail) ==
    IF fail = "none"
       THEN AddSignals(DOMAIN index) \o << <<"complete">> >>
       ELSE << <<"error", fail>> >>

\* What the last discovery operation did: `had` is the index a run started
\* from, `broadcast` every DISCOVERY_SIGNAL it sent, in order
DiscNone == [op |-> "none", started |-> FALSE, cleared |-> FALSE,
             signals |-> <<>>, escaped |-> FALSE,
             had |-> {}, broadcast |-> <<>>]

\* _discovery_process(user_initiated), which has no await that suspends: the
\* index is cleared for a user-initiated run, zc-001 is registered and marked
\* ready, the simulated devices are registered with the first controller, one
\* signal goes out per device of the index and then the complete signal; an
\* exception ends the try block and sends the error signal; finally clears
\* the flag.
DiscoveryProcess(index, reg, oid, t, user_initiated, run, fail) ==
    LET index1 == ClearedIndex(index, user_initiated)
        reached2 == fail # "discover_controllers"
        reg2 == IF reached2
                   THEN MarkReady(AddController(reg, "zc-001", "192.168.1.100", t, oid), "zc-001")
                   ELSE reg
        first == FirstController(reg2)
        reached3 == reached2 /\ fail # "query_devices"
        index3 == IF reached3 /\ first # "none"
                     THEN AddDevices(index1, DevicesBefore(fail), reg2[first].oid, run)
                     ELSE index1
        adds == IF fail = "none"
                   THEN { <<"add", d>> : d \in DOMAIN index3 }
                   ELSE {}
    IN  [index |-> index3,
         reg |-> reg2,
         cleared |-> user_initiated,
         adds |-> adds,
         final |-> IF fail = "none" THEN <<"complete">> ELSE <<"error", fail>>,
         broadcast |-> Broadcast(index3, fail)]

AlreadyRunning_never(flag) == FALSE

\* if self.in_progress: return
AlreadyRunning(flag) == flag

FlagAfterRun_kept_on_error(fail) == fail # "none"

\* finally: self.in_progress = False
FlagAfterRun(fail) == FALSE

\* start_discovery(user_initiated), which does not touch the device index
StartDiscoveryStep(user_initiated) ==
    /\ disc_runs < MaxRuns
    /\ IF AlreadyRunning(in_progress)
          THEN /\ disc_last' = [DiscNone EXCEPT !.op = "start_discovery"]
               /\ UNCHANGED <<in_progress, disc_task, disc_runs>>
          ELSE /\ in_progress' = TRUE
               /\ disc_task' = disc_task \o << [user_initiated |-> user_initiated] >>
               /\ disc_runs' = disc_runs + 1
               /\ disc_last' = [DiscNone EXCEPT !.op = "start_discovery", !.started = TRUE]
    /\ UNCHANGED <<regVars, ctorVars, wdVars, cmdVars>>
    /\ UNCHANGED <<udpVars, mcVars, devVars>>

\* A start_discovery call on its own
StartDiscoveryCall(user_initiated) ==
    /\ StartDiscoveryStep(user_initiated)
    /\ UNCHANGED hub_devices

\* The discover_devices service: handle_discover_devices clears the index
\* when the call sets force_reset, then calls start_discovery(True)
HandleDiscoverDevices(force_reset) ==
    /\ hub_devices' = IF force_reset THEN EmptyIndex ELSE hub_devices
    /\ StartDiscoveryStep(TRUE)

\* The event loop runs the task that start_discovery created
RunDiscovery(fail) ==
    /\ disc_task # <<>>
    /\ "zc-001" \in DOMAIN controllers \/ next_oid <= MaxObjects
    /\ LET r == DiscoveryProcess(hub_devices, controllers, next_oid, now,
                                 Head(disc_task).user_initiated, disc_runs, fail)
       IN  /\ hub_devices' = r.index
           /\ controllers' = r.reg
           /\ next_oid' = IF DOMAIN r.reg = DOMAIN controllers THEN next_oid ELSE next_oid + 1
           /\ disc_last' = [op |-> "run", started |-> FALSE, cleared |-> r.cleared,
                            signals |-> <<r.adds, r.final>>, escaped |-> FALSE,
                            had |-> DOMAIN hub_devices, broadcast |-> r.broadcast]
    /\ disc_task' = Tail(disc_task)
    /\ in_progress' = FlagAfterRun(fail)
    /\ UNCHANGED <<disc_runs, reg_last>>
    /\ UNCHANGED <<ctorVars, wdVars, cmdVars>>
    /\ UNCHANGED <<udpVars, mcVars, devVars>>

\* hub.remove_device(device_id)
RemoveDevice(device_id) ==
    /\ hub_devices' = [d \in (DOMAIN hub_devices) \ {device_id} |-> hub_devices[d]]
    /\ UNCHANGED <<in_progress, disc_task, disc_runs, disc_last>>
    /\ UNCHANGED <<regVars, ctorVars, wdVars, cmdVars>>
    /\ UNCHANGED <<udpVars, mcVars, devVars>>

\* The controller heartbeats heard while discovery is exercised
Sightings == { <<"zc-1", "10.0.0.5">> }

InitDisc ==
    /\ in_progress = FALSE
    /\ disc_task = <<>>
    /\ disc_runs = 0
    /\ hub_devices = EmptyIndex
    /\ disc_last = DiscNone

\* Discovery as the integration drives it: the run that setup starts, the
\* discover_devices service, and controllers that are heard meanwhile
NextSvc ==
    \/ StartDiscoveryCall(FALSE)
    \/ \E force_reset \in BOOLEAN : HandleDiscoverDevices(force_reset)
    \/ \E fail \in FailPoints : RunDiscovery(fail)
    \/ \E sighting \in Sightings : AddControllerCall(sighting[1], sighting[2])

NextDisc ==
    \/ \E user_initiated \in BOOLEAN : StartDiscoveryCall(user_initiated)
    \/ \E fail \in FailPoints : RunDiscovery(fail)
    \/ \E device_id \in DeviceIds : RemoveDevice(device_id)
    \/ \E sighting \in Sightings : AddControllerCall(sighting[1], sighting[2])

---------------------------------------------------------------------------
(* Device commands against a controller whose send can fail *)

\* What awaiting controller.send_command(command) can come to: the send
\* returns True or False, or it raises (asyncio.TimeoutError when no response
\* came in time, or another exception of the transport)
SendOutcomes == {"true", "false", "timeout", "error"}
SendRaises(send) == send \in {"timeout", "error"}

NoTask == [op |-> "none", kwargs |-> EmptyDict, button |-> 0, action |-> "none"]

\* The calls of turn_on, turn_off and press_button that reach send_command
DeviceCommands(d) ==
    IF d.kind = "light"
       THEN { [NoTask EXCEPT !.op = "turn_on", !.kwargs = k] : k \in LightKwargs }
            \cup { [NoTask EXCEPT !.op = "turn_off"] }
    ELSE IF d.kind = "switch"
       THEN { [NoTask EXCEPT !.op = "press_button", !.button = b, !.action = a] :
                 b \in 0..(d.num_buttons - 1), a \in ButtonActions }
    ELSE {}

\* The statements after the await: the optimistic update
ApplyOptimistic(d, task, run) ==
    IF task.op = "turn_on" THEN TurnOn(d, "turn_on", task.kwargs, run)
    ELSE IF task.op = "turn_off" THEN TurnOff(d, run)
    ELSE LET r == HandleButtonEvent(d, task.button, task.action, run)
         IN  [dev |-> r.dev,
              last |-> [r.last EXCEPT
                          !.op = "press_button",
                          !.cmds = << <<"BUTTON_ACTION", task.button, task.action>> >>]]

\* The rest of the call once the send is over: the value send_command returns
\* is not looked at, and an exception it raises leaves the call at the await,
\* before the update.
AfterSend(d, task, send, run) ==
    IF SendRaises(send)
       THEN [dev |-> d, last |-> [NoOp(task.op) EXCEPT !.raised = TRUE]]
       ELSE ApplyOptimistic(d, task, run)

\* turn_on, turn_off or press_button is called and waits in send_command
CommandStart(task) ==
    /\ dev_task = NoTask
    /\ task \in DeviceCommands(dev)
    /\ dev_task' = task
    /\ UNCHANGED dev_ctrl
    /\ UNCHANGED devVars
    /\ UNCHANGED <<regVars, discVars, ctorVars, wdVars>>
    /\ UNCHANGED <<udpVars, mcVars>>

\* The send is over and the call runs to its end
SendCompletes(send, run) ==
    /\ dev_task # NoTask
    /\ LET r == AfterSend(dev, dev_task, send, run)
       IN  /\ dev' = r.dev
           /\ dev_last' = r.last
    /\ dev_task' = NoTask
    /\ UNCHANGED <<dev_ctrl, now, btn_run>>
    /\ UNCHANGED <<regVars, discVars, ctorVars, wdVars>>
    /\ UNCHANGED <<udpVars, mcVars>>

\* Lights and switches, the devices that send commands
InitCmd ==
    /\ dev \in { d \in InitialDevices : d.kind \in {"light", "switch"} }
    /\ dev_last = NoOp("none")
    /\ now = 0
    /\ btn_run = IdleRun

NextCmd ==
    \/ \E cb \in CallbackIds : RegisterCallback(cb)
    \/ RegisterHass
    \/ \E task \in DeviceCommands(dev) : CommandStart(task)
    \/ \E send \in SendOutcomes, run \in NotifyRuns(dev.callbacks) : SendCompletes(send, run)
    \/ \E partial \in StatePartials, run \in NotifyRuns(dev.callbacks) :
          UpdateStateCall(partial, run)

---------------------------------------------------------------------------
(* A light and the controller object that owns it *)

\* The two ZenController classes a device can be constructed with: the
\* registry's (controller.py), whose send_command only logs, and the one of
\* devices.py, whose send_command sleeps and then writes the state of the
\* light itself when the light is in its devices mapping
OwnerKinds == {"registry", "simulating"}

\* devices.py ZenController.send_command: the state it writes for a command
SimulatedState(command, kwargs) ==
    IF command = "LIGHT_ON"
       THEN [state |-> Str("on"),
             brightness |-> IF "brightness" \in DOMAIN kwargs
                               THEN kwargs["brightness"] ELSE IntV(255)]
       ELSE [state |-> Str("off")]

\* await self.controller.send_command(command), as far as the device goes
SendVia(ctrl, d, command, kwargs, run) ==
    IF ctrl = "simulating"
       THEN UpdateState(d, SimulatedState(command, kwargs), run)
       ELSE [dev |-> d, notified |-> FALSE, invoked |-> {}, raised |-> FALSE]

\* What the send and the rest of the call did together
Joined(s, r) ==
    [dev |-> r.dev,
     last |-> [r.last EXCEPT !.notified = @ \/ s.notified,
                             !.invoked = @ \cup s.invoked]]

\* turn_on from the send on: an exception of a callback called inside
\* send_command leaves turn_on before its own update_state
TurnOnVia(ctrl, d, op, kwargs, run) ==
    LET s == SendVia(ctrl, d, "LIGHT_ON", kwargs, run)
    IN  IF s.raised
           THEN [dev |-> s.dev,
                 last |-> [Outcome(op, s, <<>>) EXCEPT !.cmds = << <<"LIGHT_ON", kwargs>> >>]]
           ELSE Joined(s, TurnOn(s.dev, op, kwargs, run))

\* turn_off from the send on
TurnOffVia(ctrl, d, run) ==
    LET s == SendVia(ctrl, d, "LIGHT_OFF", EmptyDict, run)
    IN  IF s.raised
           THEN [dev |-> s.dev,
                 last |-> [Outcome("turn_off", s, <<>>) EXCEPT !.cmds = << <<"LIGHT_OFF">> >>]]
           ELSE Joined(s, TurnOff(s.dev, run))

\* The keyword arguments turn_on is given (the device_command service passes
\* its params through as they come)
LightParams ==
    { EmptyDict,
      [brightness |-> IntV(128)],
      [rgb_color |-> ListV(<<255, 0, 0>>)],
      [brightness |-> IntV(64), color_temp |-> IntV(300)] }

\* The arguments set_brightness is given
BrightnessInputs == {0, 255, 300}

\* The state objects of light_state events
LightStates ==
    { [state |-> Str("on"), brightness |-> IntV(200)],
      [state |-> Str("off")],
      [brightness |-> IntV(0 - 1)] }

LightDone(r) ==
    /\ dev' = r.dev
    /\ dev_last' = r.last
    /\ UNCHANGED <<now, btn_run>>
    /\ UNCHANGED <<udpVars, mcVars, hubVars>>

LightTurnOn(kwargs, run) == LightDone(TurnOnVia(dev_ctrl, dev, "turn_on", kwargs, run))

LightTurnOff(run) == LightDone(TurnOffVia(dev_ctrl, dev, run))

LightSetBrightness(brightness, run) ==
    LightDone(TurnOnVia(dev_ctrl, dev, "set_brightness",
                        [brightness |-> IntV(brightness)], run))

\* A light_state event for the light: hub._handle_device_event hands the
\* state object to update_state
LightStateEvent(state, run) ==
    LET r == UpdateState(dev, state, run)
    IN  LightDone([dev |-> r.dev, last |-> Outcome("update_state", r, <<>>)])

InitLight ==
    /\ dev \in { NewLight(c) : c \in BOOLEAN }
    /\ dev_last = NoOp("none")
    /\ now = 0
    /\ btn_run = IdleRun
    /\ dev_ctrl \in OwnerKinds

NextLight ==
    \/ \E cb \in CallbackIds : RegisterCallback(cb)
    \/ \E kwargs \in LightParams, run \in NotifyRuns(dev.callbacks) : LightTurnOn(kwargs, run)
    \/ \E run \in NotifyRuns(dev.callbacks) : LightTurnOff(run)
    \/ \E b \in BrightnessInputs, run \in NotifyRuns(dev.callbacks) : LightSetBrightness(b, run)
    \/ \E state \in LightStates, run \in NotifyRuns(dev.callbacks) : LightStateEvent(state, run)

---------------------------------------------------------------------------
(* A light command suspended in send_command while events arrive *)

\* turn_on or turn_off is called on a light whose controller is the one of
\* devices.py: the call builds its command and is suspended in send_command,
\* at await asyncio.sleep(0.05).  (send_command of controller.py has no await
\* that suspends, so a call through it runs to its end in one step.)
LightCommandStart(task) ==
    /\ dev.kind = "light"
    /\ dev_ctrl = "simulating"
    /\ CommandStart(task)

\* The sleep is over: send_command writes the simulated state and returns,
\* and the call goes on to its own update_state
LightCommandResumes(run) ==
    /\ dev_task # NoTask
    /\ LET r == IF dev_task.op = "turn_on"
                   THEN TurnOnVia(dev_ctrl, dev, "turn_on", dev_task.kwargs, run)
                   ELSE TurnOffVia(dev_ctrl, dev, run)
       IN  /\ dev' = r.dev
           /\ dev_last' = r.last
    /\ dev_task' = NoTask
    /\ UNCHANGED <<dev_ctrl, now, btn_run>>
    /\ UNCHANGED <<regVars, discVars, ctorVars, wdVars>>
    /\ UNCHANGED <<udpVars, mcVars>>

InitRace ==
    /\ dev \in { NewLight(c) : c \in BOOLEAN }
    /\ dev_last = NoOp("none")
    /\ now = 0
    /\ btn_run = IdleRun
    /\ dev_ctrl = "simulating"

NextRace ==
    \/ \E cb \in CallbackIds : RegisterCallback(cb)
    \/ \E task \in DeviceCommands(dev) : LightCommandStart(task)
    \/ \E run \in NotifyRuns(dev.callbacks) : LightCommandResumes(run)
    \/ \E state \in LightStates, run \in NotifyRuns(dev.callbacks) : LightStateEvent(state, run)

---------------------------------------------------------------------------
(* ZenControlHub: construction, controller events, the watchdog *)

EmptyConfig == [u \in {} |-> 0]

ConfigEntry(ip, name, discovery_enabled) ==
    [ip_address |-> ip, name |-> name, discovery_enabled |-> discovery_enabled]

\* config_entry.data["controllers"]: none, one or two pre-declared controllers
HubConfigs ==
    { EmptyConfig,
      [u \in {"zc-1"} |-> ConfigEntry("10.0.0.5", "Main", TRUE)],
      [u \in Uids |-> IF u = "zc-1" THEN ConfigEntry("10.0.0.5", "Main", TRUE)
                                     ELSE ConfigEntry("10.0.0.9", "Annex", FALSE)] }

\* Positional arguments add_controller(self, uid, ip) takes besides self
ADD_CONTROLLER_ARITY == 2

\* Calling a method with more positional arguments than it has parameters
\* raises TypeError before its body runs
CallRaises(arity, given) == IF given > arity THEN "TypeError" ELSE "none"

\* _add_configured_controllers: for each entry of the configuration,
\* registry.add_controller(controller_id, ip_address, name), three arguments
AddConfiguredControllers(config) ==
    IF DOMAIN config = {} THEN "none"
    ELSE CallRaises(ADD_CONTROLLER_ARITY, 3)

\* ZenControlHub.__init__: the registry and the device index are created
\* empty, then the configured controllers are added
ConstructHub(config) ==
    /\ hub_state = "none"
    /\ hub_config' = config
    /\ controllers' = EmptyRegistry
    /\ hub_devices' = EmptyIndex
    /\ hub_error' = AddConfiguredControllers(config)
    /\ hub_state' = IF hub_error' = "none" THEN "built" ELSE "failed"
    /\ UNCHANGED <<next_oid, reg_last>>
    /\ UNCHANGED <<in_progress, disc_task, disc_runs, disc_last>>
    /\ UNCHANGED <<wdVars, cmdVars>>
    /\ UNCHANGED <<udpVars, mcVars, devVars>>

Statuses == {"startup_complete", "shutdown", "heartbeat"}
EventIps == {"10.0.0.5", "none"}     \* "none": the event has no ip_address

HandleControllerEvent_known_status_only(reg, uid, ip, status, t, oid) ==
    IF uid = "none" \/ ip = "none" THEN reg
    ELSE LET r1 == AddController(reg, uid, ip, t, oid)
             r2 == [r1 EXCEPT ![uid].last_seen = t]
         IN  IF status = "startup_complete" THEN MarkReady(r2, uid)
             ELSE IF status = "shutdown" THEN [r2 EXCEPT ![uid].is_ready = FALSE]
             ELSE r1

\* _handle_controller_event: an event without controller_id or ip_address is
\* dropped; otherwise the controller is added or updated, its heartbeat is
\* refreshed and the status is applied
HandleControllerEvent(reg, uid, ip, status, t, oid) ==
    IF uid = "none" \/ ip = "none" THEN reg
    ELSE LET r1 == AddController(reg, uid, ip, t, oid)
             r2 == [r1 EXCEPT ![uid].last_seen = t]
         IN  IF status = "startup_complete" THEN MarkReady(r2, uid)
             ELSE IF status = "shutdown" THEN [r2 EXCEPT ![uid].is_ready = FALSE]
             ELSE r2

\* handle_multicast_event for a controller_status event
ControllerEvent(uid, ip, status) ==
    /\ hub_state = "built"
    /\ uid \in DOMAIN controllers \/ next_oid <= MaxObjects
    /\ controllers' = HandleControllerEvent(controllers, uid, ip, status, now, next_oid)
    /\ next_oid' = IF DOMAIN controllers' = DOMAIN controllers THEN next_oid ELSE next_oid + 1
    /\ reg_last' = [RegNone EXCEPT !.op = "controller_event"]
    /\ UNCHANGED <<discVars, ctorVars, wdVars, cmdVars>>
    /\ UNCHANGED <<udpVars, mcVars, devVars>>

\* asyncio.create_task(hub.controller_watchdog()): the task runs up to its
\* first await asyncio.sleep(60)
StartWatchdog ==
    /\ hub_state = "built"
    /\ wd_state = "none"
    /\ wd_state' = "sleeping"
    /\ wd_wake' = now + WATCHDOG_INTERVAL
    /\ UNCHANGED wd_cycles
    /\ UNCHANGED <<regVars, discVars, ctorVars, cmdVars>>
    /\ UNCHANGED <<udpVars, mcVars, devVars>>

\* Where one cycle can raise: in remove_stale_controllers or in the logging
\* loop that follows it
CycleFailures == {"none", "remove_stale", "log"}

\* The regular sleep ends, no earlier than 60 seconds after it began, and one
\* cycle runs: remove_stale_controllers(120), then the status log.  An
\* exception other than CancelledError is logged and the task goes on to the
\* fallback sleep inside the except clause; otherwise the loop starts over
\* with the next regular sleep.
WatchdogRuns(fail) ==
    /\ wd_state = "sleeping"
    /\ now >= wd_wake
    /\ wd_cycles' = wd_cycles + 1
    /\ wd_wake' = now + WATCHDOG_INTERVAL
    /\ IF fail = "remove_stale"
          THEN UNCHANGED <<controllers, reg_last>>
          ELSE /\ controllers' = RemoveStaleControllers(controllers, now, WATCHDOG_TIMEOUT)
               /\ reg_last' = [op |-> "remove_stale", change |-> "none",
                               removed |-> (DOMAIN controllers) \ (DOMAIN controllers')]
    /\ wd_state' = IF fail = "none" THEN "sleeping" ELSE "fallback"
    /\ UNCHANGED next_oid
    /\ UNCHANGED <<discVars, ctorVars, cmdVars>>
    /\ UNCHANGED <<udpVars, mcVars, devVars>>

\* A cycle of the watchdog, as long as the bound on cycles allows
WatchdogCycle(fail) ==
    /\ wd_cycles < MaxCycles
    /\ WatchdogRuns(fail)

\* The fallback sleep ends and the loop starts over
FallbackEnds ==
    /\ wd_state = "fallback"
    /\ now >= wd_wake
    /\ wd_state' = "sleeping"
    /\ wd_wake' = now + WATCHDOG_INTERVAL
    /\ UNCHANGED wd_cycles
    /\ UNCHANGED <<regVars, discVars, ctorVars, cmdVars>>
    /\ UNCHANGED <<udpVars, mcVars, devVars>>

\* task.cancel(): CancelledError is raised at the await the task is suspended
\* in.  The regular sleep is inside the try, whose except CancelledError
\* breaks out of the loop, and the coroutine returns.  The fallback sleep is
\* inside the except Exception clause, where nothing catches it, and
\* CancelledError leaves the coroutine.
AfterCancel(state) == IF state = "sleeping" THEN "returned" ELSE "raised_cancelled"

CancelWatchdog ==
    /\ wd_state \in {"sleeping", "fallback"}
    /\ wd_state' = AfterCancel(wd_state)
    /\ UNCHANGED <<wd_cycles, wd_wake>>
    /\ UNCHANGED <<regVars, discVars, ctorVars, cmdVars>>
    /\ UNCHANGED <<udpVars, mcVars, devVars>>

\* Time passes while the hub is up
HubIntervalPasses ==
    /\ hub_state = "built"
    /\ IntervalPasses

NextHub ==
    \/ \E config \in HubConfigs : ConstructHub(config)
    \/ \E uid \in Uids, ip \in EventIps, status \in Statuses : ControllerEvent(uid, ip, status)
    \/ StartWatchdog
    \/ \E fail \in CycleFailures : WatchdogCycle(fail)
    \/ FallbackEnds
    \/ CancelWatchdog
    \/ HubIntervalPasses

---------------------------------------------------------------------------
(* ZenControlHub.handle_multicast_event for device events *)

\* A decoded event: "absent" and None stand for a key the object does not
\* have or whose value is null (dict.get returns None for both)
EmptyEvent ==
    [type |-> "absent", device_id |-> "absent", subtype |-> "absent",
     button |-> None, action |-> "absent", active |-> None,
     state |-> None]

\* The device_id under which the hub's index holds the device that is followed
TrackedId == "dev-1"

DeviceEvent(device_id, subtype) ==
    [EmptyEvent EXCEPT !.type = "device_event", !.device_id = device_id,
                       !.subtype = subtype]

\* Device events with every field their subtype asks for
CompleteEvents(device_id) ==
    { [DeviceEvent(device_id, "button") EXCEPT !.button = IntV(b), !.action = a] :
         b \in {0, NumButtons}, a \in {"press", "release"} }
    \cup { [DeviceEvent(device_id, s) EXCEPT !.active = Bool(v)] :
              s \in {"motion", "occupancy"}, v \in BOOLEAN }
    \cup { [DeviceEvent(device_id, "light_state") EXCEPT
               !.state = DictV([state |-> Str("on"), brightness |-> IntV(200)])] }

\* Device events that lack a field their subtype asks for, or have a subtype
\* the hub does not know, or none
IncompleteEvents(device_id) ==
    { [DeviceEvent(device_id, "button") EXCEPT !.button = IntV(0)],
      [DeviceEvent(device_id, "button") EXCEPT !.action = "press"],
      DeviceEvent(device_id, "motion"),
      DeviceEvent(device_id, "occupancy"),
      DeviceEvent(device_id, "light_state"),
      DeviceEvent(device_id, "dimmer"),
      DeviceEvent(device_id, "absent") }

\* The events the group delivers that are not controller_status events
OtherEvents ==
    CompleteEvents(TrackedId) \cup IncompleteEvents(TrackedId)
    \cup CompleteEvents("ghost") \cup CompleteEvents("absent")
    \cup { EmptyEvent, [EmptyEvent EXCEPT !.type = "telemetry"],
           [DeviceEvent(TrackedId, "light_state") EXCEPT !.type = "absent",
               !.state = DictV([state |-> Str("on"), brightness |-> IntV(200)])] }

Found_any(index, device_id) == TRUE

\* if device := self.devices.get(device_id)
Found(index, device_id) == device_id \in DOMAIN index

\* Has the class of the device the handler the subtype calls
HasHandler(d, subtype) ==
    CASE subtype = "button" -> d.kind = "switch"
      [] subtype \in {"motion", "occupancy"} -> d.kind = "sensor"
      [] OTHER -> TRUE

Dropped(why) == NoOp(why)

\* _handle_device_event, for an event that resolves to device d or to none:
\* the device_id and the subtype's fields are checked, then the device's
\* handler is called; a handler the device's class does not have is an
\* AttributeError
HandleDeviceEvent(d, index, e, t, run) ==
    IF e.device_id = "absent"
       THEN [dev |-> d, last |-> Dropped("drop_no_device_id")]
    ELSE IF ~Found(index, e.device_id)
       THEN [dev |-> d, last |-> Dropped("drop_unknown_device")]
    ELSE IF e.subtype = "button"
       THEN IF e.button = None \/ e.action = "absent"
               THEN [dev |-> d, last |-> Dropped("drop_missing_field")]
            ELSE IF ~HasHandler(d, e.subtype)
               THEN [dev |-> d, last |-> [NoOp("AttributeError") EXCEPT !.raised = TRUE]]
            ELSE HandleButtonEvent(d, e.button[2], e.action, run)
    ELSE IF e.subtype \in {"motion", "occupancy"}
       THEN IF e.active = None
               THEN [dev |-> d, last |-> Dropped("drop_missing_field")]
            ELSE IF ~HasHandler(d, e.subtype)
               THEN [dev |-> d, last |-> [NoOp("AttributeError") EXCEPT !.raised = TRUE]]
            ELSE IF e.subtype = "motion" THEN HandleMotion(d, e.active[2], t, run)
            ELSE HandleOccupancy(d, e.active[2], t, run)
    ELSE IF e.subtype = "light_state"
       THEN IF e.state = None
               THEN [dev |-> d, last |-> Dropped("drop_missing_field")]
               ELSE LET r == UpdateState(d, e.state[2], run)
                    IN  [dev |-> r.dev, last |-> Outcome("update_state", r, <<>>)]
    ELSE [dev |-> d, last |-> Dropped("drop_unknown_subtype")]

\* handle_multicast_event for an event that is not a controller_status event
HandleOtherEvent(d, index, e, t, run) ==
    IF e = EmptyEvent THEN [dev |-> d, last |-> Dropped("drop_empty")]
    ELSE IF e.type = "device_event" THEN HandleDeviceEvent(d, index, e, t, run)
    ELSE [dev |-> d, last |-> Dropped("drop_unknown_type")]

MulticastEvent(e, run) ==
    /\ hub_state = "built"
    /\ LET r == HandleOtherEvent(dev, hub_devices, e, now, run)
       IN  /\ dev' = r.dev
           /\ dev_last' = r.last
    /\ UNCHANGED <<now, btn_run>>
    /\ UNCHANGED <<udpVars, mcVars, hubVars>>

\* A hub in service: a controller has been heard from and one device has been
\* added to the hub with hub.add_device
InitEvt ==
    /\ dev \in { [d EXCEPT !.hass = TRUE] : d \in InitialDevices }
    /\ dev_last = NoOp("none")
    /\ now = 0
    /\ btn_run = IdleRun
    /\ controllers = AddController(EmptyRegistry, "zc-1", "10.0.0.5", 0, 1)
    /\ next_oid = 2
    /\ reg_last = RegNone
    /\ hub_devices = [d \in {TrackedId} |-> [cls |-> 0, owner |-> 1, made_by |-> 0]]
    /\ in_progress = FALSE
    /\ disc_task = <<>>
    /\ disc_runs = 0
    /\ disc_last = DiscNone
    /\ hub_state = "built"
    /\ hub_error = "none"
    /\ hub_config = EmptyConfig
    /\ wd_state = "none"
    /\ wd_cycles = 0
    /\ wd_wake = 0
    /\ dev_task = NoTask
    /\ dev_ctrl = "registry"

NextEvt ==
    \/ \E cb \in CallbackIds : RegisterCallback(cb)
    \/ Tick
    \/ \E e \in OtherEvents, run \in NotifyRuns(dev.callbacks) : MulticastEvent(e, run)

---------------------------------------------------------------------------
(* The hub in service: events, discovery, registry calls and the watchdog *)

\* controller_id and ip_address of the controller_status events heard
\* ("none": the event has no such key)
EventUids == {"zc-1", "none"}
StatusIps == Ips \cup {"none"}

\* The add_controller calls made on the hub's registry from outside the event
\* path, and the device events heard
DirectSightings == { <<"zc-1", "10.0.0.9">> }
HeardDeviceEvents == { e \in CompleteEvents(TrackedId) : e.subtype = "light_state" }

\* hub.add_device(device) for the device that is followed, constructed with
\* the controller registered under uid
AddDeviceCall(uid) ==
    /\ hub_state = "built"
    /\ uid \in DOMAIN controllers
    /\ hub_devices' = [d \in (DOMAIN hub_devices) \cup {TrackedId} |->
                          IF d = TrackedId
                             THEN [cls |-> 0, owner |-> controllers[uid].oid, made_by |-> 0]
                             ELSE hub_devices[d]]
    /\ dev' = [dev EXCEPT !.hass = TRUE]
    /\ UNCHANGED <<dev_last, now, btn_run>>
    /\ UNCHANGED <<in_progress, disc_task, disc_runs, disc_last>>
    /\ UNCHANGED <<regVars, ctorVars, wdVars, cmdVars>>
    /\ UNCHANGED <<udpVars, mcVars>>

\* start_discovery and the task it creates, on the hub's discovery manager
HubStartDiscovery(user_initiated) ==
    /\ hub_state = "built"
    /\ disc_runs < MaxHubRuns
    /\ StartDiscoveryCall(user_initiated)

HubRunDiscovery(fail) ==
    /\ hub_state = "built"
    /\ RunDiscovery(fail)

\* hub.registry.add_controller(uid, ip), called on the hub's registry
HubAddController(uid, ip) ==
    /\ hub_state = "built"
    /\ AddControllerCall(uid, ip)

NextSys ==
    \/ \E config \in HubConfigs : ConstructHub(config)
    \/ \E uid \in EventUids, ip \in StatusIps, status \in Statuses :
          ControllerEvent(uid, ip, status)
    \/ \E e \in HeardDeviceEvents, run \in NotifyRuns(dev.callbacks) :
          MulticastEvent(e, run)
    \/ AddDeviceCall("zc-1")
    \/ \E s \in DirectSightings : HubAddController(s[1], s[2])
    \/ HubStartDiscovery(FALSE)
    \/ HubRunDiscovery("none")
    \/ StartWatchdog
    \/ WatchdogCycle("none")
    \/ HubIntervalPasses

---------------------------------------------------------------------------
(* The watchdog against the clock *)

\* The clock advances by half a watchdog interval.  A sleep that is due ends
\* before the clock moves on: the event loop is not held up.
ClockAdvances ==
    /\ now < MaxHalfIntervals * (WATCHDOG_INTERVAL \div 2)
    /\ wd_state \in {"sleeping", "fallback"} => now < wd_wake
    /\ now' = now + (WATCHDOG_INTERVAL \div 2)
    /\ UNCHANGED <<dev, dev_last, btn_run>>
    /\ UNCHANGED hubVars
    /\ UNCHANGED <<udpVars, mcVars>>

\* A controller_status heartbeat of one of the controllers is heard
Heartbeat(uid) == ControllerEvent(uid, "10.0.0.5", "heartbeat")

\* A watchdog cycle in which nothing raises
WatchdogWakes == WatchdogRuns("none")

\* The hub after setup: built, with its watchdog task in its first sleep
InitWd ==
    /\ InitReg
    /\ InitDisc
    /\ hub_state = "built"
    /\ hub_error = "none"
    /\ hub_config = EmptyConfig
    /\ wd_state = "sleeping"
    /\ wd_cycles = 0
    /\ wd_wake = WATCHDOG_INTERVAL
    /\ dev_task = NoTask
    /\ dev_ctrl = "registry"

NextWd ==
    \/ ClockAdvances
    \/ \E uid \in Uids : Heartbeat(uid)
    \/ WatchdogWakes

---------------------------------------------------------------------------
(* Specifications *)

InitUdp ==
    /\ sequence_counter = 0
    /\ pending_commands = <<>>
    /\ udp_transport = FALSE
    /\ callers = [c \in Callers |-> IdleCaller]
    /\ udp_error = "none"
    /\ udp_heard = [c \in Callers |-> FALSE]
    /\ udp_wire = <<>>
    /\ sends = 0
    /\ bursts = 0

NextUdp ==
    \/ UdpStart
    \/ UdpStop
    \/ \E c \in Callers, command \in Commands : SendCommand(c, command)
    \/ \E data \in InboundDatagrams : HandleDatagram(data)
    \/ \E c \in Callers : TimeoutExpires(c)
    \/ \E c \in Callers : Resume(c)
    \/ BackgroundTraffic

\* The device of SpecUdp and SpecMcast, which never touch it
InitOneDevice ==
    /\ dev = NewLight(FALSE)
    /\ dev_last = NoOp("none")
    /\ now = 0
    /\ btn_run = IdleRun

\* The hub side at rest
InitHubRest ==
    /\ InitReg
    /\ InitDisc
    /\ hub_state = "none"
    /\ hub_error = "none"
    /\ hub_config = EmptyConfig
    /\ wd_state = "none"
    /\ wd_cycles = 0
    /\ wd_wake = 0
    /\ dev_task = NoTask

\* The hub side at rest, its devices owned by controllers of the registry
InitHubIdle ==
    /\ InitHubRest
    /\ dev_ctrl = "registry"

Init == InitUdp /\ InitMcast /\ InitOneDevice /\ InitHubIdle

SpecUdp == Init /\ [][NextUdp]_vars

SpecMcast == Init /\ [][NextMcast]_vars

InitDevSpec == InitUdp /\ InitMcast /\ InitDev /\ InitHubIdle

SpecDev == InitDevSpec /\ [][NextDev]_vars

InitRunSpec == InitUdp /\ InitMcast /\ InitRun /\ InitHubIdle

SpecRun == InitRunSpec /\ [][NextRun]_vars

SpecReg == Init /\ [][NextReg]_vars

SpecHub == Init /\ [][NextHub]_vars

InitCmdSpec == InitUdp /\ InitMcast /\ InitCmd /\ InitHubIdle

SpecCmd == InitCmdSpec /\ [][NextCmd]_vars

InitLightSpec == InitUdp /\ InitMcast /\ InitLight /\ InitHubRest

SpecLight == InitLightSpec /\ [][NextLight]_vars

InitEvtSpec == InitUdp /\ InitMcast /\ InitEvt

SpecEvt == InitEvtSpec /\ [][NextEvt]_vars

SpecSys == Init /\ [][NextSys]_vars

InitWdSpec == InitUdp /\ InitMcast /\ InitOneDevice /\ InitWd

SpecWd == InitWdSpec /\ [][NextWd]_vars

InitRaceSpec == InitUdp /\ InitMcast /\ InitRace /\ InitHubRest

SpecRace == InitRaceSpec /\ [][NextRace]_vars

SpecSvc == Init /\ [][NextSvc]_vars

SpecDisc == Init /\ [][NextDisc]_vars

\* The event loop runs every task it was given
SpecDiscLive == SpecDisc /\ WF_vars(\E fail \in FailPoints : RunDiscovery(fail))

---------------------------------------------------------------------------
(* Claims about the UDP transport *)

\* A command whose future is registered and not yet settled
InFlight(c) == callers[c].pc = "awaiting" /\ callers[c].fut = "pending"

\* C1: with any number of commands in flight, a datagram whose header equals
\* sequence s settles the future of exactly the callers that were issued s
\* with the bytes after the header, and leaves every other in-flight command
\* pending and unchanged.
C1_ResponseResumesIssuer ==
    [][ \A data \in InboundDatagrams :
          (Len(data) >= 2 /\ HandleDatagram(data)) =>
             \A c \in Callers :
                InFlight(c) =>
                   IF callers[c].seq = FromBytes(SubSeq(data, 1, 2))
                      THEN callers'[c] = [callers[c] EXCEPT
                               !.fut = "done", !.value = SubSeq(data, 3, Len(data))]
                      ELSE callers'[c] = callers[c] ]_vars

\* C2: a command that was sent and heard no datagram with its sequence ends
\* in TimeoutError after a single send; a slot of pending_commands always
\* belongs to a command that is still awaiting under that very sequence (a
\* returned command has left none behind), and a future is only ever settled
\* by a datagram that carried its sequence after the command was issued.
C2_TimeoutReleasesSlot ==
    /\ \A c \in Callers :
          (callers[c].pc = "done" /\ callers[c].sent > 0 /\ ~udp_heard[c])
             => (callers[c].outcome = "TimeoutError" /\ callers[c].sent = 1)
    /\ \A s \in DOMAIN pending_commands :
          /\ callers[pending_commands[s]].pc = "awaiting"
          /\ callers[pending_commands[s]].seq = s
    /\ \A c \in Callers : callers[c].fut = "done" => udp_heard[c]

\* C2 witness: a command timed out and returned, the counter wrapped, and a
\* later command issued the same number holds the slot and has been answered.
C2_Witness ==
    \E a, b \in Callers :
       /\ a # b
       /\ callers[a].pc = "done" /\ callers[a].outcome = "TimeoutError"
       /\ callers[b].seq = callers[a].seq
       /\ callers[b].pc = "awaiting" /\ callers[b].fut = "done"
       /\ callers[a].seq \in DOMAIN pending_commands
       /\ pending_commands[callers[a].seq] = b

\* C3: a sequence number is never issued while an earlier command holding it
\* is still outstanding: registering a slot never overwrites one.
C3_NoReuseWhileOutstanding ==
    [][ \A c \in Callers, command \in Commands :
          SendCommand(c, command) =>
             NextSequence(sequence_counter) \notin DOMAIN pending_commands ]_vars

\* No command is awaiting a response under the sequence of this datagram
Uncorrelated(data) ==
    \/ Len(data) < 2
    \/ ~ \E c \in Callers :
           InFlight(c) /\ callers[c].seq = FromBytes(SubSeq(data, 1, 2))

\* C4: a datagram that cannot be correlated to a waiting caller (truncated,
\* or for a sequence nobody awaits, duplicates and late responses included)
\* is dropped: handle_datagram raises nothing and neither a caller nor the
\* pending table changes.
C4_UncorrelatedDropped ==
    [][ \A data \in InboundDatagrams :
          (Uncorrelated(data) /\ HandleDatagram(data)) =>
             /\ udp_error' = "none"
             /\ callers' = callers
             /\ pending_commands' = pending_commands ]_vars

---------------------------------------------------------------------------
(* Claims about the multicast listener *)

ValidJson(d) == d.utf8 /\ d.json = "object"

\* C5: a datagram that is not valid JSON or not valid UTF-8 raises nothing
\* out of handle_datagram and reaches no callback, and a valid datagram is
\* delivered whatever came before it.
C5_CorruptDatagramDropped ==
    [][ \A d \in McDatagrams :
          McHandleDatagram(d) =>
             IF ValidJson(d)
                THEN (listeners # <<>> =>
                         (mc_event' = d.event /\ mc_calls' # <<>>))
                ELSE (mc_error' = "none" /\ mc_calls' = <<>>) ]_vars

\* C6: for a decoded datagram every listener registered when it arrives is
\* invoked, whether or not another listener raises, and nothing is raised
\* out of handle_datagram.
C6_EveryListenerInvoked ==
    [][ \A d \in McDatagrams :
          (ValidJson(d) /\ McHandleDatagram(d)) =>
             /\ mc_error' = "none"
             /\ \A i \in DOMAIN listeners : InList(mc_calls', listeners[i]) ]_vars

\* Number of times x is in the list L
Occurrences(L, x) == Cardinality({i \in DOMAIN L : L[i] = x})

\* C39: when a listener unregisters itself while a datagram is dispatched,
\* every other listener registered when the datagram arrived is still
\* invoked exactly once per registration.
C39_RemovalDuringDispatch ==
    [][ \A d \in McDatagrams :
          (/\ ValidJson(d)
           /\ \E i \in DOMAIN listeners : Behaviour(listeners[i]) = "removes_self"
           /\ McHandleDatagram(d)) =>
             \A l \in ListenerIds :
                Behaviour(l) # "removes_self" =>
                   Occurrences(mc_calls', l) = Occurrences(listeners, l) ]_vars

\* The send_command calls made on the transport so far
CallCount == sends + bursts * BurstLen

\* The sequence number in the header of the last datagram put on the wire
WireSequence(wire) == FromBytes(SubSeq(wire, 1, 2))

\* A send_command step that hands its datagram to the open transport
TransmitStep ==
    /\ udp_transport
    /\ \E c \in Callers, command \in Commands : SendCommand(c, command)

\* C19, with k counting the send_command calls made on the transport,
\* including those that fail before anything is transmitted: the datagram of
\* the k-th call carries k mod 65536 as two bytes, high byte first, decoding
\* the header gives that number back, and decoding inverts encoding for every
\* value 0..65535.
C19_HeaderCarriesCallCount ==
    /\ \A s \in 0..(SEQ_MOD - 1) : FromBytes(ToBytes(s)) = s
    /\ [][TransmitStep =>
             LET k == CallCount' % SEQ_MOD
             IN  /\ udp_wire'[1] = k \div 256
                 /\ udp_wire'[2] = k % 256
                 /\ WireSequence(udp_wire') = k]_vars

\* The call after 65535 calls has put sequence 0 on the wire
C19_Witness ==
    /\ bursts = 1
    /\ sends = 1
    /\ udp_wire # <<>>
    /\ WireSequence(udp_wire) = 0
    /\ \E c \in Callers : callers[c].pc = "awaiting" /\ callers[c].seq = 0

\* C19 as stated, with k counting the commands sent: the first datagram on
\* the wire carries 1 and every later one carries the number after the one
\* before it, modulo 65536.
C19_HeaderCarriesSendCount ==
    [][TransmitStep =>
          WireSequence(udp_wire') =
              IF udp_wire = <<>> THEN 1 ELSE NextSequence(WireSequence(udp_wire))]_vars

---------------------------------------------------------------------------
(* Claims about the devices, checked under SpecDev (C8 under SpecRun) *)

\* Some key of partial has a value different from the stored one
Differs(st, partial) == \E k \in DOMAIN partial : DictGet(st, k) # partial[k]

\* C7: update_state(partial) invokes every registered change-callback if and
\* only if some key of partial had a value different from the stored one, the
\* state afterwards is the prior state overridden by partial, and the same
\* call made again notifies nobody.
C7_UpdateStateNotifiesIffChanged ==
    [][\A partial \in StatePartials, run \in NotifyRuns(dev.callbacks) :
          UpdateStateCall(partial, run) =>
              /\ dev_last'.invoked = (IF Differs(dev.state, partial) THEN dev.callbacks ELSE {})
              /\ dev'.state = Override(dev.state, partial)
              /\ \A again \in NotifyRuns(dev'.callbacks) :
                     ~UpdateState(dev', partial, again).notified]_vars

C9_MomentaryPressRelease ==
    [][(dev.mode = "momentary" /\ dev_last'.op = "handle_button_event") =>
          \A b \in 0..(dev.num_buttons - 1), a \in ButtonActions,
             run \in NotifyRuns(dev.callbacks) :
             HandleButtonEventCall(b, a, run) =>
                 dev'.button_states =
                     [i \in 0..(dev.num_buttons - 1) |->
                         IF i # b THEN dev.button_states[i]
                         ELSE IF a = "press" THEN TRUE
                         ELSE IF a = "release" THEN FALSE
                         ELSE dev.button_states[i]]]_vars

\* A momentary button released after it was pressed, another one still held
C9_Witness ==
    /\ dev.kind = "switch" /\ dev.mode = "momentary"
    /\ dev_last.op = "handle_button_event"
    /\ dev_last.events = << <<"zencontrol_button_event", 0, "release", FALSE>> >>
    /\ dev_last.notified
    /\ ~dev.button_states[0]
    /\ dev.button_states[1]

\* A step in which the device rejects the operation it is given
RejectedStep ==
    \/ \E b \in ButtonInputs \ (0..(dev.num_buttons - 1)), a \in ButtonActions,
          run \in NotifyRuns(dev.callbacks) :
          HandleButtonEventCall(b, a, run) \/ PressButtonCall(b, a, run)
    \/ \E b \in ButtonInputs \ (0..(dev.num_buttons - 1)), scene_id \in SceneIds :
          AssignScene(b, scene_id)
    \/ \E active \in BOOLEAN, run \in NotifyRuns(dev.callbacks) :
          \/ dev.sensor_type = "occupancy" /\ HandleMotionCall(active, run)
          \/ dev.sensor_type = "motion" /\ HandleOccupancyCall(active, run)
    \/ \E rgb \in RgbColors, ct \in ColorTemps, run \in NotifyRuns(dev.callbacks) :
          /\ ~dev.is_color
          /\ SetRgbColorCall(rgb, run) \/ SetColorTempCall(ct, run)

\* C10: a rejected operation (a button index out of range, a sensor event of
\* the other sub-type, a colour operation on a light without colour) leaves
\* the device, its state and its scene map as they were, sends no command,
\* notifies no callback, fires no domain event and raises nothing.
C10_RejectedIsNoOp ==
    [][RejectedStep =>
          /\ dev' = dev
          /\ dev_last'.rejected
          /\ dev_last'.cmds = <<>>
          /\ ~dev_last'.notified /\ dev_last'.invoked = {}
          /\ dev_last'.events = <<>>
          /\ ~dev_last'.raised]_vars

\* press_button with an index out of range, on a switch that has a button held,
\* a scene assigned, a callback and a Home Assistant reference
C10_Witness ==
    /\ dev_last.rejected /\ dev_last.op = "press_button"
    /\ \E i \in 0..(dev.num_buttons - 1) : dev.button_states[i]
    /\ DOMAIN dev.scenes # {}
    /\ dev.callbacks # {} /\ dev.hass

\* A step of an operation that changes the state and notifies the callbacks
NotifyingStep ==
    \/ \E partial \in StatePartials, run \in NotifyRuns(dev.callbacks) :
          UpdateStateCall(partial, run)
    \/ \E b \in 0..(NumButtons - 1), a \in ButtonActions,
          run \in NotifyRuns(dev.callbacks) : HandleButtonEventCall(b, a, run)

\* C17: when one change-callback raises during a notification, the device's
\* other callbacks are still invoked and the operation is not aborted: no
\* exception leaves it, and a button event is still emitted as domain event.
C17_CallbackFailureIsolated ==
    [][(NotifyingStep /\ dev_last'.notified) =>
          /\ dev_last'.invoked = dev.callbacks
          /\ ~dev_last'.raised
          /\ (dev_last'.op = "handle_button_event" /\ dev.hass) =>
                 Len(dev_last'.events) = 1]_vars

\* C20: on a toggle-mode switch handle_button_event(b, press) and
\* (b, double_press) invert button b, release and any other action leave every
\* button as it was and notify nobody, and no other button changes.
C20_ToggleInvertsOnPress ==
    [][(dev.mode = "toggle" /\ dev_last'.op = "handle_button_event") =>
          \A b \in 0..(dev.num_buttons - 1), a \in ButtonActions,
             run \in NotifyRuns(dev.callbacks) :
             HandleButtonEventCall(b, a, run) =>
                 /\ dev'.button_states =
                        [i \in 0..(dev.num_buttons - 1) |->
                            IF i = b /\ a \in {"press", "double_press"}
                               THEN ~dev.button_states[i]
                               ELSE dev.button_states[i]]
                 /\ a \notin {"press", "double_press"} =>
                        ~dev_last'.notified /\ dev_last'.invoked = {}]_vars

\* C18: the optimistic update of turn_on, turn_off and press_button is applied
\* whatever becomes of the send: when the send fails or times out the device
\* is left as it is left when the send succeeds.
C18_OptimisticUpdateRegardless ==
    [][\A send \in SendOutcomes, run \in NotifyRuns(dev.callbacks) :
          SendCompletes(send, run) =>
              dev' = AfterSend(dev, dev_task, "true", run).dev]_vars

\* C21: every in-range button event handled on a switch registered with the
\* hub emits exactly one button domain event, carrying the button index, the
\* action and the button's boolean as it is after the transition; a rejected
\* event emits none.
C21_ButtonEventEmitted ==
    [][(dev.hass /\ dev_last'.op = "handle_button_event") =>
          \A b \in ButtonInputs, a \in ButtonActions,
             run \in NotifyRuns(dev.callbacks) :
             HandleButtonEventCall(b, a, run) =>
                 dev_last'.events =
                     IF ValidButton(dev, b)
                        THEN << <<"zencontrol_button_event", b, a, dev'.button_states[b]>> >>
                        ELSE <<>>]_vars

\* C22: press_button(b, action) on an in-range button sends one BUTTON_ACTION
\* command and then applies the transition of handle_button_event(b, action)
\* without waiting for an event: the switch it leaves is the switch that
\* handle_button_event(b, action) makes of the same starting switch, with the
\* same notification and the same domain event.
C22_PressButtonAppliesTransition ==
    [][(dev.kind = "switch" /\ dev_last'.op = "press_button") =>
          \A b \in 0..(dev.num_buttons - 1), a \in ButtonActions,
             run \in NotifyRuns(dev.callbacks) :
             PressButtonCall(b, a, run) =>
                 LET h == HandleButtonEvent(dev, b, a, run)
                 IN  /\ dev_last'.cmds = << <<"BUTTON_ACTION", b, a>> >>
                     /\ dev' = h.dev
                     /\ dev_last'.notified = h.last.notified
                     /\ dev_last'.invoked = h.last.invoked
                     /\ dev_last'.events = h.last.events]_vars

\* press_button(1, "press") has set button 1 of a momentary switch and told
\* the callbacks and Home Assistant
C22_Witness ==
    /\ dev.kind = "switch" /\ dev.mode = "momentary"
    /\ dev_last.op = "press_button"
    /\ dev_last.cmds = << <<"BUTTON_ACTION", 1, "press">> >>
    /\ dev_last.notified /\ dev_last.invoked = CallbackIds
    /\ dev_last.events = << <<"zencontrol_button_event", 1, "press", TRUE>> >>
    /\ dev.button_states[1]
    /\ ~dev.button_states[0]

\* A sensor event of the sensor's own sub-type is handled
OwnSensorEvent(active) ==
    \E run \in NotifyRuns(dev.callbacks) :
        \/ dev.sensor_type = "motion" /\ HandleMotionCall(active, run)
        \/ dev.sensor_type = "occupancy" /\ HandleOccupancyCall(active, run)

\* C25: for a sensor receiving events of its own sub-type, last_triggered is
\* set to the current time only by an event that moves the sensor from
\* inactive to active, a repeated active event leaves it unchanged and
\* notifies nobody, and it is empty whenever active is false.
C25_LastTriggeredOnActivation ==
    /\ []((dev.kind = "sensor" /\ DictGet(dev.state, "active") = Bool(FALSE)) =>
             DictGet(dev.state, "last_triggered") = None)
    /\ [][dev.kind = "sensor" =>
            \A active \in BOOLEAN :
               OwnSensorEvent(active) =>
                  LET was == DictGet(dev.state, "active") = Bool(TRUE)
                  IN  /\ DictGet(dev'.state, "last_triggered") =
                             IF ~active THEN None
                             ELSE IF was THEN DictGet(dev.state, "last_triggered")
                             ELSE TimeV(now)
                      /\ (active /\ was) => ~dev_last'.notified]_vars

---------------------------------------------------------------------------
(* Claims about a light and its controller, checked under SpecLight *)

LightFields == {"brightness", "rgb_color", "color_temp"}

\* C23: after turn_on(params) completes, state["state"] is "on", each of
\* brightness, rgb_color and color_temp that was supplied holds the supplied
\* value and each one not supplied holds what it held before; after turn_off
\* completes, state["state"] is "off" and the three are as they were.
C23_TurnOnWritesSuppliedOnly ==
    /\ [][\A kwargs \in LightParams, run \in NotifyRuns(dev.callbacks) :
            (LightTurnOn(kwargs, run) /\ ~dev_last'.raised) =>
                /\ DictGet(dev'.state, "state") = Str("on")
                /\ \A k \in LightFields :
                      DictGet(dev'.state, k) =
                          IF k \in DOMAIN kwargs THEN kwargs[k]
                                                 ELSE DictGet(dev.state, k)]_vars
    /\ [][\A run \in NotifyRuns(dev.callbacks) :
            (LightTurnOff(run) /\ ~dev_last'.raised) =>
                /\ DictGet(dev'.state, "state") = Str("off")
                /\ \A k \in LightFields :
                      DictGet(dev'.state, k) = DictGet(dev.state, k)]_vars

\* C24: after any sequence of turn_on and set_brightness calls and light_state
\* events, the brightness in a light's state is an integer of 0..255.
C24_BrightnessInRange ==
    dev.kind = "light" =>
        \E n \in 0..255 : DictGet(dev.state, "brightness") = IntV(n)

---------------------------------------------------------------------------
(* Claims about a suspended light command, checked under SpecRace *)

\* The state keys a suspended turn_on or turn_off sets once it resumes, and
\* the values it sets them to
CommandSets(task) ==
    IF task.op = "turn_on"
       THEN Override([state |-> Str("on")],
                     [k \in (DOMAIN task.kwargs) \cap LightFields |-> task.kwargs[k]])
       ELSE [state |-> Str("off")]

\* C37: when a light_state event was the last to write the light before a
\* suspended turn_on or turn_off resumes, then after the command returns the
\* keys the command sets hold the command's values and every other key holds
\* what the event left.
C37_LastResumedWins ==
    [][\A run \in NotifyRuns(dev.callbacks) :
          (/\ dev_last.op = "update_state"
           /\ LightCommandResumes(run)
           /\ ~dev_last'.raised) =>
              LET sets == CommandSets(dev_task)
              IN  /\ \A k \in DOMAIN sets : DictGet(dev'.state, k) = sets[k]
                  /\ \A k \in (DOMAIN dev.state) \ (DOMAIN sets) :
                         DictGet(dev'.state, k) = dev.state[k]]_vars

---------------------------------------------------------------------------
(* Claims about the registry, checked under SpecReg *)

\* C11: add_controller(uid, ip) leaves exactly one controller under uid, whose
\* uid is its key and whose ip is the ip just given; a known uid keeps its
\* controller object and its other fields, every other entry is untouched,
\* and a call with unchanged data changes nothing.
C11_AddControllerUpserts ==
    /\ [](\A u \in DOMAIN controllers : controllers[u].uid = u)
    /\ [][\A uid \in Uids, ip \in Ips :
            AddControllerCall(uid, ip) =>
               /\ DOMAIN controllers' = (DOMAIN controllers) \cup {uid}
               /\ controllers'[uid].uid = uid
               /\ controllers'[uid].ip = ip
               /\ \A u \in (DOMAIN controllers) \ {uid} : controllers'[u] = controllers[u]
               /\ uid \in DOMAIN controllers =>
                      controllers'[uid] = [controllers[uid] EXCEPT !.ip = ip]
               /\ (uid \in DOMAIN controllers /\ controllers[uid].ip = ip) =>
                      controllers' = controllers]_vars

\* A second sighting with another ip, next to another registered controller
C11_Witness ==
    /\ reg_last.op = "add_controller" /\ reg_last.change = "ip_changed"
    /\ DOMAIN controllers = Uids
    /\ \E u \in Uids : controllers[u].ip = "10.0.0.9" /\ controllers[u].last_seen < now

\* C12: remove_stale_controllers(timeout) removes exactly the controllers with
\* now - last_seen strictly greater than timeout and leaves the others, and
\* their fields, as they were.
C12_RemoveStaleExact ==
    [][\A timeout \in Timeouts :
          RemoveStaleCall(timeout) =>
             /\ DOMAIN controllers' =
                    {u \in DOMAIN controllers : ~(now - controllers[u].last_seen > timeout)}
             /\ \A u \in DOMAIN controllers' : controllers'[u] = controllers[u]]_vars

\* One controller removed, another one exactly `timeout` old kept
C12_Witness ==
    /\ reg_last.op = "remove_stale" /\ reg_last.removed # {}
    /\ \E u \in DOMAIN controllers : now - controllers[u].last_seen = WATCHDOG_TIMEOUT

---------------------------------------------------------------------------
(* Claims about discovery, checked under SpecDisc and SpecDiscLive *)

\* C13: at most one discovery workflow exists at any time, and a
\* start_discovery call made while the flag is set creates no task, queues
\* nothing and leaves the device index (and the registry) as it was.
C13_OneDiscoveryAtATime ==
    /\ [](Len(disc_task) <= 1 /\ (disc_task # <<>> => in_progress))
    /\ [][\A user_initiated \in BOOLEAN :
            (in_progress /\ StartDiscoveryCall(user_initiated)) =>
               /\ disc_task' = disc_task
               /\ disc_runs' = disc_runs
               /\ in_progress'
               /\ hub_devices' = hub_devices
               /\ controllers' = controllers]_vars

\* A second call while the first run, over a non-empty index, has not yet run
C13_Witness ==
    /\ disc_last.op = "start_discovery" /\ ~disc_last.started
    /\ in_progress /\ Len(disc_task) = 1
    /\ Head(disc_task).user_initiated
    /\ DOMAIN hub_devices # {}

\* C14: a discovery run that was started always ends with the flag cleared,
\* whether it completes or raises: the failure is turned into an error signal
\* that carries its text, a success into the complete signal, nothing leaves
\* the task, and the next start_discovery call starts a new run.
C14_DiscoveryReturnsToIdle ==
    /\ in_progress ~> ~in_progress
    /\ [][\A fail \in FailPoints :
            RunDiscovery(fail) =>
               /\ ~in_progress'
               /\ ~disc_last'.escaped
               /\ disc_last'.signals[2] =
                      (IF fail = "none" THEN <<"complete">> ELSE <<"error", fail>>)]_vars
    /\ [][\A user_initiated \in BOOLEAN :
            (~in_progress /\ StartDiscoveryCall(user_initiated)) =>
               /\ in_progress'
               /\ disc_task' = << [user_initiated |-> user_initiated] >>]_vars

\* A run that failed half-way through the devices, then a new run started
C14_Witness ==
    /\ disc_last.op = "start_discovery" /\ disc_last.started
    /\ disc_runs = 2
    /\ \E d \in DOMAIN hub_devices : hub_devices[d].made_by = 1
    /\ DOMAIN hub_devices # DeviceIds

\* The objects of the index before the step that are still in it after it
Surviving == {d \in DOMAIN hub_devices :
                 d \in DOMAIN hub_devices' /\ hub_devices'[d] = hub_devices[d]}

\* C31: a discovery run clears the whole device index, before the controllers
\* are refreshed, if and only if it is user-initiated: after a user-initiated
\* run the index holds no object from before it (nothing at all when the run
\* fails while refreshing the controllers), and a run that is not
\* user-initiated removes no device_id.
C31_ClearedIffUserInitiated ==
    [][\A fail \in FailPoints :
          RunDiscovery(fail) =>
             IF Head(disc_task).user_initiated
                THEN /\ Surviving = {}
                     /\ \A d \in DOMAIN hub_devices' : hub_devices'[d].made_by = disc_runs
                     /\ (fail \in {"discover_controllers", "query_devices"}
                            => hub_devices' = EmptyIndex)
                     /\ (fail = "discover_controllers" => controllers' = controllers)
                ELSE DOMAIN hub_devices \subseteq DOMAIN hub_devices']_vars

\* A user-initiated run over the full index failed while the controllers were
\* refreshed: the index is empty
C31_Witness ==
    /\ disc_last.op = "run" /\ disc_last.cleared
    /\ disc_last.signals[2] = <<"error", "discover_controllers">>
    /\ disc_last.had = DeviceIds
    /\ hub_devices = EmptyIndex

\* The positions of a broadcast that hold a terminal signal
Terminals(b) == {i \in DOMAIN b : b[i][1] \in {"complete", "error"}}

\* C32: each discovery run broadcasts exactly one terminal signal, complete
\* when its steps succeed and error (with the error's text) otherwise; a
\* successful run sends one add signal for each device it registered, all of
\* them before the complete signal.
C32_OneTerminalSignal ==
    [][\A fail \in FailPoints :
          RunDiscovery(fail) =>
             LET b == disc_last'.broadcast
                 registered == {d \in DOMAIN hub_devices' :
                                   hub_devices'[d].made_by = disc_runs}
             IN  /\ Cardinality(Terminals(b)) = 1
                 /\ b[Len(b)] = (IF fail = "none" THEN <<"complete">>
                                                  ELSE <<"error", fail>>)
                 /\ fail = "none" =>
                       \A d \in registered :
                          /\ Cardinality({i \in DOMAIN b : b[i] = <<"add", d>>}) = 1
                          /\ \A i \in DOMAIN b, j \in Terminals(b) :
                                 b[i] = <<"add", d>> => i < j]_vars

\* A successful run over an index that held devices already: four add
\* signals and then the complete signal
C32_Witness ==
    /\ disc_last.op = "run"
    /\ disc_last.had # {}
    /\ Len(disc_last.broadcast) = Len(SimulatedDevices) + 1
    /\ disc_last.broadcast[Len(disc_last.broadcast)] = <<"complete">>
    /\ \A d \in DOMAIN hub_devices : hub_devices[d].made_by = disc_runs

\* C38: a discovery run that is not user-initiated preserves every device
\* already in the index: each device_id still maps to the same device object
\* (and so to its state and its callbacks).
C38_BackgroundRunPreserves ==
    [][\A fail \in FailPoints :
          (RunDiscovery(fail) /\ ~Head(disc_task).user_initiated) =>
             Surviving = DOMAIN hub_devices]_vars

\* C33: during a discovery run devices are registered only against
\* controllers whose is_ready is true at that moment.
C33_OnlyReadyControllers ==
    [][\A fail \in FailPoints :
          RunDiscovery(fail) =>
             \A d \in DOMAIN hub_devices' :
                hub_devices'[d].made_by = disc_runs =>
                   \E u \in GetReadyControllers(controllers') :
                      controllers'[u].oid = hub_devices'[d].owner]_vars

---------------------------------------------------------------------------
(* Claims about the discover_devices service, checked under SpecSvc *)

\* C36: a discover_devices service call that arrives while a discovery run
\* is in progress leaves the device index unchanged, also when it sets
\* force_reset.
C36_ServiceCallDuringRun ==
    [][\A force_reset \in BOOLEAN :
          (in_progress /\ HandleDiscoverDevices(force_reset)) =>
             hub_devices' = hub_devices]_vars

---------------------------------------------------------------------------
(* Claims about the watchdog's timing, checked under SpecWd *)

\* Seconds since the controller registered under u was last heard
Age(u) == now - controllers[u].last_seen

\* C34: while the watchdog runs without a failing cycle, its cycles are 60
\* seconds apart and each removes exactly the controllers last seen more
\* than 120 seconds ago; a controller is removed only when its last
\* heartbeat is more than 120 seconds old, and none stays registered beyond
\* 180 seconds after its last heartbeat.
C34_WatchdogTiming ==
    /\ [][WatchdogWakes =>
             /\ now = wd_wake
             /\ wd_wake' = now + WATCHDOG_INTERVAL
             /\ DOMAIN controllers' = {u \in DOMAIN controllers : ~(Age(u) > 120)}
             /\ \A u \in DOMAIN controllers' : controllers'[u] = controllers[u]]_vars
    /\ [][\A u \in DOMAIN controllers :
             u \notin DOMAIN controllers' => Age(u) > 120]_vars
    /\ [](\A u \in DOMAIN controllers : Age(u) <= 180)
    /\ [][ClockAdvances => \A u \in DOMAIN controllers : Age(u) < 180]_vars

\* A cycle has just run that kept a controller heard exactly 120 seconds
\* earlier and removed another that was heard before it
C34_Witness ==
    /\ reg_last.op = "remove_stale"
    /\ reg_last.removed = {"zc-2"}
    /\ wd_wake = now + WATCHDOG_INTERVAL
    /\ "zc-1" \in DOMAIN controllers
    /\ Age("zc-1") = 120

---------------------------------------------------------------------------
(* Claims about the hub, checked under SpecHub *)

\* The name a controller object holds ("none": it has no such attribute)
StoredName(c) == IF "name" \in DOMAIN c THEN c.name ELSE "none"

StoredDiscoveryEnabled(c) ==
    IF "discovery_enabled" \in DOMAIN c THEN c.discovery_enabled ELSE "none"

\* C15: constructing a hub with any number of pre-declared controllers
\* succeeds and leaves the registry holding exactly the configured uids, each
\* with its configured ip, name and discovery_enabled flag and not ready.
C15_HubConstructionRegisters ==
    [][\A config \in HubConfigs :
          ConstructHub(config) =>
             /\ hub_state' = "built"
             /\ hub_error' = "none"
             /\ DOMAIN controllers' = DOMAIN config
             /\ \A u \in DOMAIN config :
                    /\ controllers'[u].ip = config[u].ip_address
                    /\ StoredName(controllers'[u]) = config[u].name
                    /\ StoredDiscoveryEnabled(controllers'[u]) = config[u].discovery_enabled
                    /\ ~controllers'[u].is_ready]_vars

\* C16: cancelling the watchdog at either of its sleeps ends the task without
\* an exception leaving it, and a cycle that raises something else is caught
\* and followed by further cycles.
C16_WatchdogCancelsCleanly ==
    /\ [](wd_state # "raised_cancelled")
    /\ [][CancelWatchdog => wd_state' = "returned"]_vars
    /\ [][\A fail \in CycleFailures \ {"none"} :
            WatchdogCycle(fail) => wd_state' = "fallback"]_vars
    /\ [][FallbackEnds => wd_state' = "sleeping"]_vars

---------------------------------------------------------------------------
(* Claims about the hub's device index, checked under SpecDisc *)

\* The controller objects of the registry that are the object `oid`
Owners(oid) == {u \in DOMAIN controllers : controllers[u].oid = oid}

\* C30: in every reachable state each device of the hub's flat index is also
\* held by its owning controller's devices mapping under the same device_id,
\* and the two entries are the same object.
C30_IndexedDeviceHeldByController ==
    \A d \in DOMAIN hub_devices :
        \E u \in Owners(hub_devices[d].owner) :
            /\ d \in DOMAIN controllers[u].devices
            /\ controllers[u].devices[d] = hub_devices[d]

---------------------------------------------------------------------------
(* Claims about event routing, checked under SpecEvt *)

\* The events C29 is about: an unrecognized type, or a device_event with no
\* device_id, an unknown device_id, an unknown subtype, or without a field
\* its subtype requires
ToBeDropped(e) ==
    \/ e.type \notin {"controller_status", "device_event"}
    \/ /\ e.type = "device_event"
       /\ \/ e.device_id = "absent"
          \/ e.device_id \notin DOMAIN hub_devices
          \/ e.subtype \notin {"button", "motion", "occupancy", "light_state"}
          \/ e.subtype = "button" /\ (e.button = None \/ e.action = "absent")
          \/ e.subtype \in {"motion", "occupancy"} /\ e.active = None
          \/ e.subtype = "light_state" /\ e.state = None

\* C29: handle_multicast_event leaves the registry, the device index and
\* every device as they were, calls no callback, fires no domain event and
\* raises nothing when the event has an unrecognized type or is a device_event
\* with a missing or unknown device_id, an unknown subtype, or a missing
\* required field.
C29_UnroutableEventDropped ==
    [][\A e \in OtherEvents, run \in NotifyRuns(dev.callbacks) :
          (ToBeDropped(e) /\ MulticastEvent(e, run)) =>
              /\ dev' = dev
              /\ controllers' = controllers
              /\ hub_devices' = hub_devices
              /\ ~dev_last'.notified /\ dev_last'.invoked = {}
              /\ dev_last'.events = <<>>
              /\ ~dev_last'.raised]_vars

\* A switch with listeners, in a state of its own, has just had an event
\* dropped: one without a required field, or for a device the hub does not know
C29_Witness ==
    /\ dev.kind = "switch"
    /\ dev.callbacks = CallbackIds
    /\ dev.button_states[0]
    /\ dev_last.op \in {"drop_missing_field", "drop_unknown_device"}

\* The events C40 is about: a complete device_event for an indexed device
\* whose subtype belongs to another kind of device than d
Misdirected(e, d) ==
    /\ e.type = "device_event"
    /\ ~ToBeDropped(e)
    /\ \/ e.subtype = "button" /\ d.kind # "switch"
       \/ e.subtype \in {"motion", "occupancy"} /\ d.kind # "sensor"
       \/ e.subtype = "light_state" /\ d.kind # "light"

\* C40: a device_event whose subtype does not apply to the kind of the
\* addressed device changes no device state and raises nothing out of
\* handle_multicast_event.
C40_MisdirectedEventIgnored ==
    [][\A e \in OtherEvents, run \in NotifyRuns(dev.callbacks) :
          (Misdirected(e, dev) /\ MulticastEvent(e, run)) =>
              /\ dev'.state = dev.state
              /\ ~dev_last'.raised]_vars

---------------------------------------------------------------------------
(* Claims about the registry of a hub in service, checked under SpecSys *)

\* The controller object registered under u stays registered under u
Kept(u) == u \in DOMAIN controllers' /\ controllers'[u].oid = controllers[u].oid

\* A step of remove_stale_controllers
RemoveStaleStep ==
    \/ \E fail \in CycleFailures : WatchdogCycle(fail)
    \/ \E timeout \in Timeouts : RemoveStaleCall(timeout)

\* C26: a controller leaves the registry only through
\* remove_stale_controllers: no controller_status event, device event,
\* add_controller call or discovery run removes an entry or puts another
\* controller object under a uid that is registered.
C26_RemovedOnlyWhenStale ==
    [][(\E u \in DOMAIN controllers : ~Kept(u)) => RemoveStaleStep]_vars

\* After a discovery run and a device event, status events and an
\* add_controller call have gone on updating the first controller object
C26_Witness ==
    /\ DOMAIN controllers = {"zc-1", "zc-001"}
    /\ controllers["zc-1"].oid = 1
    /\ controllers["zc-1"].ip = "10.0.0.9"
    /\ controllers["zc-1"].last_seen = WATCHDOG_INTERVAL
    /\ ~controllers["zc-1"].is_ready
    /\ reg_last.op = "controller_event"
    /\ disc_last.op = "run"
    /\ dev_last.op = "update_state"
    /\ wd_cycles > 0

\* The controller object registered under u before the step is the one
\* registered under u after it
SameObject(u) == u \in DOMAIN controllers /\ controllers[u].oid = controllers'[u].oid

\* C27: is_ready is false on a new controller, becomes true only through
\* mark_ready (a startup_complete status or a discovery run), becomes false
\* only through a shutdown status, which keeps the controller registered, and
\* is unchanged by any other status; mark_ready on a ready controller changes
\* nothing; get_ready_controllers returns exactly the registered controllers
\* whose is_ready is true.
C27_ReadyFollowsStatus ==
    /\ [](\A u \in DOMAIN controllers :
             /\ controllers[u].is_ready => MarkReady(controllers, u) = controllers
             /\ u \in GetReadyControllers(controllers) <=> controllers[u].is_ready)
    /\ [](GetReadyControllers(controllers) \subseteq DOMAIN controllers)
    /\ [][\A u \in DOMAIN controllers' :
            /\ (controllers'[u].is_ready /\ ~(SameObject(u) /\ controllers[u].is_ready)) =>
                  \/ \E ip \in Ips : ControllerEvent(u, ip, "startup_complete")
                  \/ u = "zc-001" /\ \E fail \in FailPoints : RunDiscovery(fail)
            /\ (SameObject(u) /\ controllers[u].is_ready /\ ~controllers'[u].is_ready) =>
                  \E ip \in Ips : ControllerEvent(u, ip, "shutdown")]_vars
    /\ [][\A u \in Uids, ip \in Ips :
            /\ ControllerEvent(u, ip, "startup_complete") => controllers'[u].is_ready
            /\ ControllerEvent(u, ip, "shutdown") =>
                  u \in DOMAIN controllers' /\ ~controllers'[u].is_ready
            /\ (ControllerEvent(u, ip, "heartbeat") /\ u \in DOMAIN controllers) =>
                  controllers'[u].is_ready = controllers[u].is_ready]_vars

\* One controller made ready by a startup_complete status, heard from again
\* later, and one made ready by a discovery run
C27_Witness ==
    /\ GetReadyControllers(controllers) = {"zc-1", "zc-001"}
    /\ reg_last.op = "controller_event"
    /\ disc_last.op = "run"
    /\ now > 0
    /\ controllers["zc-1"].last_seen = now

\* C28: every controller_status event that carries controller_id and
\* ip_address leaves that uid registered with the event's ip_address as ip and
\* the current time as last_seen, whatever its status; an event missing either
\* field leaves the registry, and with it every last_seen and is_ready, as it
\* was.
C28_StatusEventRefreshes ==
    [][\A uid \in EventUids, ip \in StatusIps, status \in Statuses :
          ControllerEvent(uid, ip, status) =>
              IF uid # "none" /\ ip # "none"
                 THEN /\ uid \in DOMAIN controllers'
                      /\ controllers'[uid].ip = ip
                      /\ controllers'[uid].last_seen = now
                 ELSE controllers' = controllers]_vars

\* The first controller object, heard from two intervals after it was
\* created, from another address
C28_Witness ==
    /\ reg_last.op = "controller_event"
    /\ "zc-1" \in DOMAIN controllers
    /\ controllers["zc-1"].oid = 1
    /\ controllers["zc-1"].ip = "10.0.0.9"
    /\ controllers["zc-1"].last_seen = 2 * WATCHDOG_INTERVAL
    /\ now = 2 * WATCHDOG_INTERVAL


\* C35: in every reachable state each device of the hub's device index is
\* owned by a controller object that the registry currently holds.
C35_OwnerStillRegistered ==
    \A d \in DOMAIN hub_devices : Owners(hub_devices[d].owner) # {}

=============================================================================
